---- MODULE Spec2Model ----
(***************************************************************************)
(* A model of message-transformer: the template registry and the          *)
(* Transform pipeline of internal/transformer, and the delivery client of  *)
(* internal/mqtt.  Byte strings are sequences of one-character strings.    *)
(***************************************************************************)
EXTENDS Integers, Sequences, FiniteSets, TLC

(***************************************************************************)
(* JSON text: the grammar accepted by encoding/json, over the characters  *)
(* the model's documents use.                                              *)
(***************************************************************************)
Digits == {"0", "1", "2", "3", "4", "5", "6", "7", "8", "9"}

HexDigits == Digits \cup {"a", "b", "c", "d", "e", "f", "A", "B", "C", "D", "E", "F"}

HexLower == <<"0", "1", "2", "3", "4", "5", "6", "7", "8", "9", "a", "b", "c", "d", "e", "f">>

HexUpper == <<"0", "1", "2", "3", "4", "5", "6", "7", "8", "9", "A", "B", "C", "D", "E", "F">>

\* The printable ASCII characters in byte order, the backquote left out (the
\* order map keys print in).
Ascii ==
    <<" ", "!", "\"", "#", "$", "%", "&", "'", "(", ")", "*", "+", ",", "-", ".", "/", "0",
      "1", "2", "3", "4", "5", "6", "7", "8", "9", ":", ";", "<", "=", ">", "?", "@", "A",
      "B", "C", "D", "E", "F", "G", "H", "I", "J", "K", "L", "M", "N", "O", "P", "Q", "R",
      "S", "T", "U", "V", "W", "X", "Y", "Z", "[", "\\", "]", "^", "_", "a", "b", "c",
      "d", "e", "f", "g", "h", "i", "j", "k", "l", "m", "n", "o", "p", "q", "r", "s", "t",
      "u", "v", "w", "x", "y", "z", "{", "|", "}", "~">>

Whitespace == {" ", "\t", "\n", "\r"}

\* Characters below 0x20 may not appear unescaped in a string.  The two-
\* character atoms "\\b" and "\\u" stand for a decoded backspace and a decoded
\* \uXXXX code point.
ControlChars == {"\t", "\n", "\r", "\f", "\\b"}

\* A decoded value: t is the dynamic type, s the text of a string or the
\* literal of a number (json.Number), c the children of a mapping (a
\* function of the keys) or of a sequence.
Val(t, s, c) == [t |-> t, s |-> s, c |-> c]

Null == Val("null", <<>>, <<>>)

\* The invalid reflect.Value text/template gets for a key the map lacks.
NoValue == Val("none", <<>>, <<>>)

Str(s) == Val("str", s, <<>>)

Num(s) == Val("num", s, <<>>)

Bool(b) == Val("bool", IF b THEN <<"t", "r", "u", "e">> ELSE <<"f", "a", "l", "s", "e">>, <<>>)

ParseFail == [ok |-> FALSE, v |-> Null, next |-> 0]

ParseOk(v, next) == [ok |-> TRUE, v |-> v, next |-> next]

RECURSIVE SkipWS(_, _)
SkipWS(s, i) ==
    IF i <= Len(s) /\ s[i] \in Whitespace THEN SkipWS(s, i + 1) ELSE i

RECURSIVE SkipDigits(_, _)
SkipDigits(s, i) ==
    IF i <= Len(s) /\ s[i] \in Digits THEN SkipDigits(s, i + 1) ELSE i

HasPrefixAt(s, i, p) ==
    /\ i + Len(p) - 1 <= Len(s)
    /\ \A k \in 1..Len(p) : s[i + k - 1] = p[k]

\* number = -? (0 | [1-9][0-9]*) (. [0-9]+)? ([eE] [+-]? [0-9]+)?
\* The value keeps the literal text (Decoder.UseNumber).
ParseNumber(s, i) ==
    LET i1 == IF i <= Len(s) /\ s[i] = "-" THEN i + 1 ELSE i
        i2 == IF i1 <= Len(s) /\ s[i1] = "0" THEN i1 + 1 ELSE SkipDigits(s, i1)
        fracOk == ~(i2 <= Len(s) /\ s[i2] = ".") \/ SkipDigits(s, i2 + 1) > i2 + 1
        i3 == IF i2 <= Len(s) /\ s[i2] = "." THEN SkipDigits(s, i2 + 1) ELSE i2
        hasExp == i3 <= Len(s) /\ s[i3] \in {"e", "E"}
        i4 == IF hasExp /\ i3 + 1 <= Len(s) /\ s[i3 + 1] \in {"+", "-"} THEN i3 + 2 ELSE i3 + 1
        i5 == IF hasExp THEN SkipDigits(s, i4) ELSE i3
    IN  IF i2 = i1 \/ ~fracOk \/ (hasExp /\ i5 = i4)
        THEN ParseFail
        ELSE ParseOk(Num(SubSeq(s, i, i5 - 1)), i5)

\* The characters after the opening quote, up to the closing one; acc is
\* the decoded text so far.
\* The value of a run of hexadecimal digits.
RECURSIVE HexValue(_, _)
HexValue(s, acc) ==
    IF Len(s) = 0 THEN acc
    ELSE HexValue(Tail(s), 16 * acc +
            (CHOOSE n \in 0..15 : s[1] \in {HexLower[n + 1], HexUpper[n + 1]}))

\* The character of a \uXXXX escape: itself for printable ASCII and the
\* control characters the model has, one stand-in for every other.
CodeChar(code) ==
    CASE code = 8 -> "\\b"
      [] code = 9 -> "\t"
      [] code = 10 -> "\n"
      [] code = 12 -> "\f"
      [] code = 13 -> "\r"
      [] code \in 32..95 -> Ascii[code - 31]
      [] code \in 97..126 -> Ascii[code - 32]
      [] OTHER -> "\\u"

RECURSIVE ParseString(_, _, _)
ParseString(s, i, acc) ==
    IF i > Len(s) THEN ParseFail
    ELSE IF s[i] = "\"" THEN ParseOk(Str(acc), i + 1)
    ELSE IF s[i] \in ControlChars THEN ParseFail
    ELSE IF s[i] = "\\" THEN
        IF i + 1 > Len(s) THEN ParseFail
        ELSE IF s[i + 1] \in {"\"", "\\", "/"} THEN ParseString(s, i + 2, Append(acc, s[i + 1]))
        ELSE IF s[i + 1] = "n" THEN ParseString(s, i + 2, Append(acc, "\n"))
        ELSE IF s[i + 1] = "r" THEN ParseString(s, i + 2, Append(acc, "\r"))
        ELSE IF s[i + 1] = "t" THEN ParseString(s, i + 2, Append(acc, "\t"))
        ELSE IF s[i + 1] = "f" THEN ParseString(s, i + 2, Append(acc, "\f"))
        ELSE IF s[i + 1] = "b" THEN ParseString(s, i + 2, Append(acc, "\\b"))
        ELSE IF s[i + 1] = "u" /\ i + 5 <= Len(s) /\ \A k \in 2..5 : s[i + k] \in HexDigits
             THEN ParseString(s, i + 6, Append(acc, CodeChar(HexValue(SubSeq(s, i + 2, i + 5), 0))))
        ELSE ParseFail
    ELSE ParseString(s, i + 1, Append(acc, s[i]))

PutKey(m, k, v) == [x \in DOMAIN m \cup {k} |-> IF x = k THEN v ELSE m[x]]

EmptyMap == [x \in {} |-> Null]

RECURSIVE ParseValue(_, _)
RECURSIVE ParseMembers(_, _, _)
RECURSIVE ParseElements(_, _, _)

\* After "{" or ",": "key" : value, then "," or "}".  A repeated key keeps
\* the last value.
ParseMembers(s, i, m) ==
    LET j == SkipWS(s, i)
        key == IF j <= Len(s) /\ s[j] = "\"" THEN ParseString(s, j + 1, <<>>) ELSE ParseFail
        col == IF key.ok THEN SkipWS(s, key.next) ELSE 0
        val == IF key.ok /\ col <= Len(s) /\ s[col] = ":" THEN ParseValue(s, col + 1) ELSE ParseFail
        e == IF val.ok THEN SkipWS(s, val.next) ELSE 0
    IN  IF ~val.ok \/ e > Len(s) THEN ParseFail
        ELSE IF s[e] = "," THEN ParseMembers(s, e + 1, PutKey(m, key.v.s, val.v))
        ELSE IF s[e] = "}" THEN ParseOk(Val("obj", <<>>, PutKey(m, key.v.s, val.v)), e + 1)
        ELSE ParseFail

ParseElements(s, i, a) ==
    LET val == ParseValue(s, i)
        e == IF val.ok THEN SkipWS(s, val.next) ELSE 0
    IN  IF ~val.ok \/ e > Len(s) THEN ParseFail
        ELSE IF s[e] = "," THEN ParseElements(s, e + 1, Append(a, val.v))
        ELSE IF s[e] = "]" THEN ParseOk(Val("arr", <<>>, Append(a, val.v)), e + 1)
        ELSE ParseFail

ParseValue(s, i) ==
    LET j == SkipWS(s, i)
    IN  IF j > Len(s) THEN ParseFail
        ELSE IF s[j] = "{" THEN
            LET k == SkipWS(s, j + 1)
            IN  IF k <= Len(s) /\ s[k] = "}"
                THEN ParseOk(Val("obj", <<>>, EmptyMap), k + 1)
                ELSE ParseMembers(s, j + 1, EmptyMap)
        ELSE IF s[j] = "[" THEN
            LET k == SkipWS(s, j + 1)
            IN  IF k <= Len(s) /\ s[k] = "]"
                THEN ParseOk(Val("arr", <<>>, <<>>), k + 1)
                ELSE ParseElements(s, j + 1, <<>>)
        ELSE IF s[j] = "\"" THEN ParseString(s, j + 1, <<>>)
        ELSE IF s[j] \in Digits \cup {"-"} THEN ParseNumber(s, j)
        ELSE IF HasPrefixAt(s, j, <<"t", "r", "u", "e">>) THEN ParseOk(Bool(TRUE), j + 4)
        ELSE IF HasPrefixAt(s, j, <<"f", "a", "l", "s", "e">>) THEN ParseOk(Bool(FALSE), j + 5)
        ELSE IF HasPrefixAt(s, j, <<"n", "u", "l", "l">>) THEN ParseOk(Null, j + 4)
        ELSE ParseFail

\* json.Valid: one value, then nothing but white space.
JsonValid(s) ==
    \E r \in {ParseValue(s, 1)} : r.ok /\ SkipWS(s, r.next) > Len(s)

(***************************************************************************)
(* Transform, step 2: decoder.Decode(&data) into map[string]interface{}.   *)
(* Decode reads the first value of the stream: text after an object is not *)
(* looked at, null gives a nil map, any other value is a type error.       *)
(***************************************************************************)
DecodeValue(input, r) ==
    IF ~r.ok THEN [ok |-> FALSE, data |-> EmptyMap]
    ELSE IF r.v.t = "obj" THEN [ok |-> TRUE, data |-> r.v.c]
    ELSE IF r.v.t = "null" /\ (r.next > Len(input) \/ input[r.next] \in Whitespace)
         THEN [ok |-> TRUE, data |-> EmptyMap]
    ELSE [ok |-> FALSE, data |-> EmptyMap]

Decode(input) == DecodeValue(input, ParseValue(input, 1))

(***************************************************************************)
(* text/template: the template text is cut at "{{" and "}}"; an action is  *)
(* a field (.name), a function name, or a function name and a field.       *)
(***************************************************************************)
Letters ==
    {"a", "b", "c", "d", "e", "f", "g", "h", "i", "j", "k", "l", "m", "n", "o", "p", "q",
     "r", "s", "t", "u", "v", "w", "x", "y", "z", "A", "B", "C", "D", "E", "F", "G", "H",
     "I", "J", "K", "L", "M", "N", "O", "P", "Q", "R", "S", "T", "U", "V", "W", "X", "Y",
     "Z", "_"}

IsIdent(w) ==
    /\ Len(w) > 0
    /\ w[1] \in Letters
    /\ \A k \in 1..Len(w) : w[k] \in Letters \cup Digits

fnToJSON == <<"t", "o", "J", "S", "O", "N">>

fnFromJSON == <<"f", "r", "o", "m", "J", "S", "O", "N">>

fnNow == <<"n", "o", "w">>

fnUuid7 == <<"u", "u", "i", "d", "7">>

fnNum == <<"n", "u", "m">>

fnBool == <<"b", "o", "o", "l">>

\* The names bound by templateFuncs, with the number of arguments of each.
templateFuncs == {fnToJSON, fnFromJSON, fnNow, fnUuid7, fnNum, fnBool}

FuncArity(fn) == IF fn \in {fnNow, fnUuid7} THEN 0 ELSE 1

TextNode(s) == [k |-> "text", s |-> s, fn |-> <<>>, arg |-> <<>>, nargs |-> 0]

FieldNode(name) == [k |-> "field", s |-> <<>>, fn |-> <<>>, arg |-> name, nargs |-> 0]

CallNode(fn, name, nargs) == [k |-> "call", s |-> <<>>, fn |-> fn, arg |-> name, nargs |-> nargs]

NoNode == [k |-> "none", s |-> <<>>, fn |-> <<>>, arg |-> <<>>, nargs |-> 0]

\* The first index >= i where p starts, or 0.
RECURSIVE IndexFrom(_, _, _)
IndexFrom(s, i, p) ==
    IF i + Len(p) - 1 > Len(s) THEN 0
    ELSE IF HasPrefixAt(s, i, p) THEN i
    ELSE IndexFrom(s, i + 1, p)

\* The words of an action, separated by spaces.
RECURSIVE Words(_, _, _)
Words(s, cur, acc) ==
    IF Len(s) = 0 THEN (IF Len(cur) > 0 THEN Append(acc, cur) ELSE acc)
    ELSE IF s[1] = " " THEN Words(Tail(s), <<>>, IF Len(cur) > 0 THEN Append(acc, cur) ELSE acc)
    ELSE Words(Tail(s), Append(cur, s[1]), acc)

IsField(w) == Len(w) > 1 /\ w[1] = "." /\ IsIdent(Tail(w))

\* One action: the node, or NoNode when it does not parse under funcs
\* ("function not defined", "missing value for command", bad syntax).
ParseAction(inner, funcs) ==
    LET w == Words(inner, <<>>, <<>>)
    IN  IF Len(w) = 1 /\ IsField(w[1]) THEN FieldNode(Tail(w[1]))
        ELSE IF Len(w) = 1 /\ IsIdent(w[1]) /\ w[1] \in funcs THEN CallNode(w[1], <<>>, 0)
        ELSE IF Len(w) = 2 /\ IsIdent(w[1]) /\ w[1] \in funcs /\ IsField(w[2])
             THEN CallNode(w[1], Tail(w[2]), 1)
        ELSE NoNode

\* template.New(id).Funcs(funcs).Parse(text): the nodes, or an error.
RECURSIVE ParseTemplate(_, _, _, _)
ParseTemplate(text, i, funcs, nodes) ==
    IF i > Len(text) THEN [ok |-> TRUE, nodes |-> nodes]
    ELSE
        LET open == IndexFrom(text, i, <<"{", "{">>)
        IN  IF open = 0 THEN [ok |-> TRUE, nodes |-> Append(nodes, TextNode(SubSeq(text, i, Len(text))))]
            ELSE
                LET close == IndexFrom(text, open + 2, <<"}", "}">>)
                    node == IF close = 0 THEN NoNode
                            ELSE ParseAction(SubSeq(text, open + 2, close - 1), funcs)
                    pre == IF open > i THEN Append(nodes, TextNode(SubSeq(text, i, open - 1)))
                           ELSE nodes
                IN  IF node.k = "none" THEN [ok |-> FALSE, nodes |-> <<>>]
                    ELSE ParseTemplate(text, close + 2, funcs, Append(pre, node))

(***************************************************************************)
(* Text of values: fmt.Fprint (what an action prints) and json.Marshal.    *)
(***************************************************************************)
Rank(ch) == IF \E i \in 1..Len(Ascii) : Ascii[i] = ch
            THEN CHOOSE i \in 1..Len(Ascii) : Ascii[i] = ch
            ELSE 0

RECURSIVE KeyLess(_, _)
KeyLess(a, b) ==
    IF Len(a) = 0 THEN Len(b) > 0
    ELSE IF Len(b) = 0 THEN FALSE
    ELSE IF a[1] = b[1] THEN KeyLess(Tail(a), Tail(b))
    ELSE Rank(a[1]) < Rank(b[1])

RECURSIVE SortedKeys(_)
SortedKeys(ks) ==
    IF ks = {} THEN <<>>
    ELSE LET m == CHOOSE k \in ks : \A o \in ks \ {k} : KeyLess(k, o)
         IN  <<m>> \o SortedKeys(ks \ {m})

\* strconv.FormatFloat(f, g, -1, 64) of the float64 a literal denotes, for
\* literals without exponent and of at most 15 significant digits.
RECURSIVE TrimZeros(_)
TrimZeros(s) ==
    IF Len(s) > 0 /\ s[Len(s)] = "0" THEN TrimZeros(SubSeq(s, 1, Len(s) - 1))
    ELSE IF Len(s) > 0 /\ s[Len(s)] = "." THEN SubSeq(s, 1, Len(s) - 1)
    ELSE s

FormatFloat(lit) ==
    IF \E i \in 1..Len(lit) : lit[i] = "." THEN TrimZeros(lit) ELSE lit

RECURSIVE FormatValue(_)
RECURSIVE FormatMembers(_, _)
RECURSIVE FormatElements(_)

FormatMembers(m, ks) ==
    IF Len(ks) = 0 THEN <<>>
    ELSE ks[1] \o <<":">> \o FormatValue(m[ks[1]])
         \o (IF Len(ks) > 1 THEN <<" ">> ELSE <<>>) \o FormatMembers(m, Tail(ks))

FormatElements(a) ==
    IF Len(a) = 0 THEN <<>>
    ELSE FormatValue(a[1]) \o (IF Len(a) > 1 THEN <<" ">> ELSE <<>>) \o FormatElements(Tail(a))

\* fmt.Fprint of the value an action evaluates to.
FormatValue(v) ==
    CASE v.t \in {"str", "num", "bool"} -> v.s
      [] v.t = "float" -> FormatFloat(v.s)
      [] v.t = "null" -> <<"<", "n", "i", "l", ">">>
      [] v.t = "none" -> <<"<", "n", "o", " ", "v", "a", "l", "u", "e", ">">>
      [] v.t = "obj" -> <<"m", "a", "p", "[">> \o FormatMembers(v.c, SortedKeys(DOMAIN v.c)) \o <<"]">>
      [] v.t = "arr" -> <<"[">> \o FormatElements(v.c) \o <<"]">>

\* The body of a JSON string as json.Marshal writes it (HTML-safe escaping).
RECURSIVE Escape(_)
Escape(s) ==
    IF Len(s) = 0 THEN <<>>
    ELSE (CASE s[1] = "\"" -> <<"\\", "\"">>
            [] s[1] = "\\" -> <<"\\", "\\">>
            [] s[1] = "\n" -> <<"\\", "n">>
            [] s[1] = "\r" -> <<"\\", "r">>
            [] s[1] = "\t" -> <<"\\", "t">>
            [] s[1] = "\f" -> <<"\\", "u", "0", "0", "0", "c">>
            [] s[1] = "\\b" -> <<"\\", "u", "0", "0", "0", "8">>
            [] s[1] = "\\u" -> <<"\\u">>
            [] s[1] = "<" -> <<"\\", "u", "0", "0", "3", "c">>
            [] s[1] = ">" -> <<"\\", "u", "0", "0", "3", "e">>
            [] s[1] = "&" -> <<"\\", "u", "0", "0", "2", "6">>
            [] OTHER -> <<s[1]>>) \o Escape(Tail(s))

RECURSIVE Marshal(_)
RECURSIVE MarshalMembers(_, _)
RECURSIVE MarshalElements(_)

MarshalMembers(m, ks) ==
    IF Len(ks) = 0 THEN <<>>
    ELSE <<"\"">> \o Escape(ks[1]) \o <<"\"", ":">> \o Marshal(m[ks[1]])
         \o (IF Len(ks) > 1 THEN <<",">> ELSE <<>>) \o MarshalMembers(m, Tail(ks))

MarshalElements(a) ==
    IF Len(a) = 0 THEN <<>>
    ELSE Marshal(a[1]) \o (IF Len(a) > 1 THEN <<",">> ELSE <<>>) \o MarshalElements(Tail(a))

\* json.Marshal of a decoded value; json.Number is written as its literal.
Marshal(v) ==
    CASE v.t = "str" -> <<"\"">> \o Escape(v.s) \o <<"\"">>
      [] v.t \in {"num", "bool"} -> v.s
      [] v.t = "float" -> FormatFloat(v.s)
      [] v.t \in {"null", "none"} -> <<"n", "u", "l", "l">>
      [] v.t = "obj" -> <<"{">> \o MarshalMembers(v.c, SortedKeys(DOMAIN v.c)) \o <<"}">>
      [] v.t = "arr" -> <<"[">> \o MarshalElements(v.c) \o <<"]">>

\* json.Unmarshal into interface{}: numbers become float64.
RECURSIVE AsFloats(_)
AsFloats(v) ==
    CASE v.t = "num" -> Val("float", v.s, <<>>)
      [] v.t = "obj" -> Val("obj", <<>>, [k \in DOMAIN v.c |-> AsFloats(v.c[k])])
      [] v.t = "arr" -> Val("arr", <<>>, [k \in DOMAIN v.c |-> AsFloats(v.c[k])])
      [] OTHER -> v

(***************************************************************************)
(* strconv.ParseFloat(s, 64) succeeds: decimal floats that do not overflow *)
(* a float64 and the special names, each with an optional sign ("nan"      *)
(* without).                                                               *)
(***************************************************************************)
\* The value of a run of decimal digits.
RECURSIVE DigitsValue(_, _)
DigitsValue(s, acc) ==
    IF Len(s) = 0 THEN acc
    ELSE DigitsValue(Tail(s), 10 * acc + (CHOOSE n \in 0..9 : Ascii[17 + n] = s[1]))

RECURSIVE LeadingZeros(_)
LeadingZeros(s) == IF Len(s) > 0 /\ s[1] = "0" THEN 1 + LeadingZeros(Tail(s)) ELSE 0

\* The first 19 digits of the least decimal that rounds to +Inf,
\* 1.797693134862315807937...e308.
infDigits ==
    <<"1", "7", "9", "7", "6", "9", "3", "1", "3", "4", "8", "6", "2", "3", "1", "5", "8", "0", "7">>

\* The float64 nearest to a well-formed decimal is infinite, so ParseFloat
\* returns ErrRange: the integer digits are s[i1..i2-1], the fraction
\* s[i2+1..i3-1], the exponent digits s[i4..i5-1], negative when neg.  Exact
\* for literals of at most 19 significant digits; a value too small for a
\* float64 parses as 0 without error.
FloatOverflow(s, i1, i2, i3, i4, i5, neg) ==
    \E mant \in {SubSeq(s, i1, i2 - 1) \o SubSeq(s, i2 + 1, i3 - 1)} :
        \E lead \in {LeadingZeros(mant)} :
            \E exp \in {DigitsValue(SubSeq(s, i4, i5 - 1), 0)} :
                \E sci \in {(i2 - i1) - lead - 1 + (IF neg THEN 0 - exp ELSE exp)} :
                    /\ lead < Len(mant)
                    /\ \/ sci > 308
                       \/ /\ sci = 308
                          /\ \E k \in 1..Len(infDigits) :
                                /\ \A j \in 1..(k - 1) :
                                        infDigits[j] = (IF lead + j <= Len(mant) THEN mant[lead + j] ELSE "0")
                                /\ Rank(IF lead + k <= Len(mant) THEN mant[lead + k] ELSE "0") > Rank(infDigits[k])

Lower(ch) ==
    CASE ch = "I" -> "i" [] ch = "N" -> "n" [] ch = "F" -> "f" [] ch = "T" -> "t"
      [] ch = "Y" -> "y" [] ch = "A" -> "a" [] OTHER -> ch

EqualFold(s, p) == Len(s) = Len(p) /\ \A k \in 1..Len(p) : Lower(s[k]) = p[k]

IsSpecialFloat(s) ==
    LET u == IF Len(s) > 0 /\ s[1] \in {"+", "-"} THEN Tail(s) ELSE s
    IN  \/ EqualFold(u, <<"i", "n", "f">>)
        \/ EqualFold(u, <<"i", "n", "f", "i", "n", "i", "t", "y">>)
        \/ EqualFold(s, <<"n", "a", "n">>)

IsDecimalFloat(s) ==
    LET i1 == IF Len(s) > 0 /\ s[1] \in {"+", "-"} THEN 2 ELSE 1
        i2 == SkipDigits(s, i1)
        dot == i2 <= Len(s) /\ s[i2] = "."
        i3 == IF dot THEN SkipDigits(s, i2 + 1) ELSE i2
        sawDigits == i2 > i1 \/ (dot /\ i3 > i2 + 1)
        hasExp == i3 <= Len(s) /\ s[i3] \in {"e", "E"}
        i4 == IF hasExp /\ i3 + 1 <= Len(s) /\ s[i3 + 1] \in {"+", "-"} THEN i3 + 2 ELSE i3 + 1
        i5 == IF hasExp THEN SkipDigits(s, i4) ELSE i3
    IN  /\ sawDigits /\ (hasExp => i5 > i4) /\ i5 > Len(s)
        /\ ~FloatOverflow(s, i1, i2, i3, i4, i5, hasExp /\ s[i4 - 1] = "-")

RECURSIVE SkipHexDigits(_, _)
SkipHexDigits(s, i) ==
    IF i <= Len(s) /\ s[i] \in HexDigits THEN SkipHexDigits(s, i + 1) ELSE i

\* The number of bits of n.
RECURSIVE BitLen(_)
BitLen(n) == IF n = 0 THEN 0 ELSE 1 + BitLen(n \div 2)

\* A hexadecimal float: 0x, hexadecimal digits with an optional point, and
\* the binary exponent p, which is mandatory.  It overflows when the value
\* reaches 2^1024 (exact for mantissas of at most 7 digits).
IsHexFloat(s) ==
    LET i0 == IF Len(s) > 0 /\ s[1] \in {"+", "-"} THEN 2 ELSE 1
        i1 == i0 + 2
        i2 == SkipHexDigits(s, i1)
        dot == i2 <= Len(s) /\ s[i2] = "."
        i3 == IF dot THEN SkipHexDigits(s, i2 + 1) ELSE i2
        sawDigits == i2 > i1 \/ (dot /\ i3 > i2 + 1)
        hasExp == i3 <= Len(s) /\ s[i3] \in {"p", "P"}
        i4 == IF hasExp /\ i3 + 1 <= Len(s) /\ s[i3 + 1] \in {"+", "-"} THEN i3 + 2 ELSE i3 + 1
        i5 == IF hasExp THEN SkipDigits(s, i4) ELSE i3
    IN  /\ i0 + 1 <= Len(s) /\ s[i0] = "0" /\ s[i0 + 1] \in {"x", "X"}
        /\ sawDigits /\ hasExp /\ i5 > i4 /\ i5 > Len(s)
        /\ \E mant \in {HexValue(SubSeq(s, i1, i2 - 1) \o SubSeq(s, i2 + 1, i3 - 1), 0)} :
            \E exp \in {DigitsValue(SubSeq(s, i4, i5 - 1), 0)} :
                \/ mant = 0
                \/ s[i4 - 1] = "-"
                \/ BitLen(mant) + exp - 4 * (IF dot THEN i3 - i2 - 1 ELSE 0) <= 1024

ParseFloatOk(s) == IsSpecialFloat(s) \/ IsDecimalFloat(s) \/ IsHexFloat(s)

(***************************************************************************)
(* templateFuncs: the functions a template calls.  uuid7 and now read the  *)
(* clock; env carries what they return for one execution.                  *)
(***************************************************************************)
toJSON(v) == Marshal(v)

\* json.Unmarshal accepts one value and trailing white space only.
fromJSON(s) ==
    IF JsonValid(s) THEN AsFloats(ParseValue(s, 1).v) ELSE Null

\* A num without its json.Number case, for a decoder without UseNumber.
numViaFloat(v) ==
    CASE v.t \in {"num", "float"} -> FormatFloat(v.s)
      [] v.t = "str" -> IF ParseFloatOk(v.s) THEN v.s ELSE <<"0">>
      [] OTHER -> <<"0">>

\* A decoded number is a json.Number; a float64 or an int never comes out of
\* the decoder, so those cases of the switch are not reached from Transform.
num(v) ==
    CASE v.t = "num" -> v.s
      [] v.t = "float" -> FormatFloat(v.s)
      [] v.t = "str" -> IF ParseFloatOk(v.s) THEN v.s ELSE <<"0">>
      [] OTHER -> <<"0">>

bool(v) ==
    CASE v.t = "bool" -> v.s
      [] v.t = "str" -> IF v.s = <<"t", "r", "u", "e">> \/ v.s = <<"f", "a", "l", "s", "e">> THEN v.s ELSE <<"f", "a", "l", "s", "e">>
      [] v.t = "float" -> <<"t", "r", "u", "e">>
      [] OTHER -> <<"f", "a", "l", "s", "e">>

\* data[name] as text/template's evalField reads it from the map.
Field(data, name) == IF name \in DOMAIN data THEN data[name] ELSE NoValue

ExecOk(out) == [ok |-> TRUE, out |-> out]

ExecErr == [ok |-> FALSE, out |-> <<>>]

\* One node of Template.Execute: the bytes it writes, or the fault.  A call
\* faults on a wrong number of arguments and, for fromJSON, on an argument
\* that is not a string.
ExecNode(node, data, env) ==
    CASE node.k = "text" -> ExecOk(node.s)
      [] node.k = "field" -> ExecOk(FormatValue(Field(data, node.arg)))
      [] node.k = "call" ->
            IF node.nargs # FuncArity(node.fn) THEN ExecErr
            ELSE CASE node.fn = fnNow -> ExecOk(env.now)
                   [] node.fn = fnUuid7 -> ExecOk(env.uuid)
                   [] node.fn = fnNum -> ExecOk(num(Field(data, node.arg)))
                   [] node.fn = fnBool -> ExecOk(bool(Field(data, node.arg)))
                   [] node.fn = fnToJSON -> ExecOk(toJSON(Field(data, node.arg)))
                   [] node.fn = fnFromJSON ->
                        IF Field(data, node.arg).t = "str"
                        THEN ExecOk(FormatValue(fromJSON(Field(data, node.arg).s)))
                        ELSE ExecErr

\* Template.Execute on an empty buffer, all nodes: the bytes written (also
\* those written before a fault) and whether every node succeeded.
RECURSIVE Execute(_, _, _, _)
Execute(nodes, data, env, out) ==
    IF Len(nodes) = 0 THEN ExecOk(out)
    ELSE LET r == ExecNode(nodes[1], data, env)
         IN  IF r.ok THEN Execute(Tail(nodes), data, env, out \o r.out)
             ELSE [ok |-> FALSE, out |-> out]

(***************************************************************************)
(* The documents, template texts and rule lists the model draws from.      *)
(***************************************************************************)
RuleIds == {"r1", "r2"}

\* {"v":{{num .y}}}
tmplNum == <<"{", "\"", "v", "\"", ":", "{", "{", "n", "u", "m", " ", ".", "y", "}", "}", "}">>

\* {"id":"{{.x}}"}
tmplStr == <<"{", "\"", "i", "d", "\"", ":", "\"", "{", "{", ".", "x", "}", "}", "\"", "}">>

\* {"j":"{{fromJSON .x}}"}
tmplFrom == <<"{", "\"", "j", "\"", ":", "\"", "{", "{", "f", "r", "o", "m", "J", "S", "O", "N", " ", ".", "x", "}", "}", "\"", "}">>

\* {"v":{{nmu .y}}} calls a function that is not defined.
tmplUndefined == <<"{", "\"", "v", "\"", ":", "{", "{", "n", "m", "u", " ", ".", "y", "}", "}", "}">>

\* {"v":{{num .y} never closes its action.
tmplUnclosed == <<"{", "\"", "v", "\"", ":", "{", "{", "n", "u", "m", " ", ".", "y", "}">>

GoodTemplates == {tmplNum, tmplStr, tmplFrom}

TemplateTexts == GoodTemplates \cup {tmplUndefined, tmplUnclosed}

\* {"x":1,"y":42}
inGood == <<"{", "\"", "x", "\"", ":", "1", ",", "\"", "y", "\"", ":", "4", "2", "}">>

\* {"x":"\"","y":"7"}: x decodes to a double quote.
inQuote == <<"{", "\"", "x", "\"", ":", "\"", "\\", "\"", "\"", ",", "\"", "y", "\"", ":", "\"", "7", "\"", "}">>

\* {"x": is cut short.
inCut == <<"{", "\"", "x", "\"", ":">>

Inputs == {inGood, inQuote, inCut}

\* [1] is valid JSON and not an object: a body the handler passes on and the
\* decoder of Transform rejects.
inArray == <<"[", "1", "]">>

\* Where a rule's output goes: Target.Topic, Target.QoS, Target.Retain.
Target(topic, qos, retain) == [Topic |-> topic, QoS |-> qos, Retain |-> retain]

Rule(id, text, target) == [ID |-> id, Template |-> text, Target |-> target]

\* The rule lists given to New.  LoadRules does not compare the ids of the
\* files it reads, so a list may name an id twice.
RuleLists ==
    { <<>>,
      <<Rule("r1", tmplNum, Target("t1", 1, FALSE))>>,
      <<Rule("r1", tmplStr, Target("t1", 1, FALSE)), Rule("r2", tmplFrom, Target("t2", 0, TRUE))>>,
      <<Rule("r1", tmplNum, Target("t1", 1, FALSE)), Rule("r1", tmplStr, Target("t2", 0, TRUE))>>,
      <<Rule("r1", tmplNum, Target("t1", 1, FALSE)), Rule("r2", tmplUndefined, Target("t2", 0, TRUE))>> }

\* What now and uuid7 return during one execution.
Envs ==
    { [now |-> <<"2", "0", "2", "4", "-", "0", "1", "-", "0", "1", "T", "0", "0", ":", "0", "0", ":", "0", "0", "Z">>, uuid |-> <<"0", "1", "9", "0", "-", "7", "a">>],
      [now |-> <<"2", "0", "2", "4", "-", "0", "1", "-", "0", "1", "T", "0", "0", ":", "0", "0", ":", "0", "1", "Z">>, uuid |-> <<"0", "1", "9", "0", "-", "7", "b">>] }

\* {"v":{{bool .y}}}
tmplBool == <<"{", "\"", "v", "\"", ":", "{", "{", "b", "o", "o", "l", " ", ".", "y", "}", "}", "}">>

\* The texts of the values the member y takes in the documents num and bool
\* are applied to: numbers, strings, booleans, null, objects and arrays.
ValueTexts ==
    { <<"1", "2", "3", "4", "5", "6", "7", "8", "9", "0", "1", "2", "3", "4", "5">>,
      <<"0">>,
      <<"0", ".", "0">>,
      <<"0", ".", "5", "0">>,
      <<"-", "0">>,
      <<"1", "e", "3">>,
      <<"4", "2">>,
      <<"\"", "7", "\"">>,
      <<"\"", "1", ".", "5", "\"">>,
      <<"\"", "-", "3", "\"">>,
      <<"\"", "o", "o", "p", "s", "\"">>,
      <<"\"", "\"">>,
      <<"\"", "1", "2", "a", "b", "c", "\"">>,
      <<"\"", "t", "r", "u", "e", "\"">>,
      <<"\"", "f", "a", "l", "s", "e", "\"">>,
      <<"\"", "T", "R", "U", "E", "\"">>,
      <<"\"", "+", "5", "\"">>,
      <<"\"", "N", "a", "N", "\"">>,
      <<"\"", "1", "e", "9", "9", "9", "\"">>,
      <<"\"", " ", "7", "\"">>,
      <<"t", "r", "u", "e">>,
      <<"f", "a", "l", "s", "e">>,
      <<"n", "u", "l", "l">>,
      <<"{", "}">>,
      <<"{", "\"", "a", "\"", ":", "1", "}">>,
      <<"[", "1", "]">>,
      <<"[", "]">> }

\* {"y":text}
DocOf(text) == <<"{", "\"", "y", "\"", ":">> \o text \o <<"}">>

\* {"x":1} has no member y.
docAbsent == <<"{", "\"", "x", "\"", ":", "1", "}">>

ValueDocs == {DocOf(text) : text \in ValueTexts} \cup {docAbsent}

\* Values of the member y that ParseFloat is given: strings it accepts that
\* are no JSON number (a sign, no integer digits, the special names, a
\* hexadecimal float), one it finds out of range, and two JSON numbers.
NumberTexts ==
    { <<"\"", "+", "5", "\"">>,
      <<"\"", "N", "a", "N", "\"">>,
      <<"\"", ".", "5", "\"">>,
      <<"\"", "I", "n", "f", "\"">>,
      <<"\"", "0", "x", "1", "p", "-", "2", "\"">>,
      <<"\"", "0", "x", "1", "p", "1", "0", "2", "4", "\"">>,
      <<"\"", "1", ".", "5", "\"">>,
      <<"4", "2">> }

NumberDocs == {DocOf(text) : text \in NumberTexts}

\* A rule for num and one for bool.
FuncRules ==
    <<Rule("r1", tmplNum, Target("t1", 1, FALSE)), Rule("r2", tmplBool, Target("t2", 0, TRUE))>>

\* {"v":{{toJSON .y}}}
tmplToJSON == <<"{", "\"", "v", "\"", ":", "{", "{", "t", "o", "J", "S", "O", "N", " ", ".", "y", "}", "}", "}">>

\* A rule that prints the member x and one that applies toJSON to the
\* member y.
PrintRules ==
    <<Rule("r1", tmplStr, Target("t1", 1, FALSE)), Rule("r2", tmplToJSON, Target("t2", 0, TRUE))>>

\* Values the decoder produces, for the functions applied by themselves:
\* strings (with characters json.Marshal escapes), numbers with their
\* literal, booleans, null, and sequences and mappings of these.
Atoms ==
    { Str(<<>>), Str(<<"a">>), Str(<<"7">>), Str(<<"\"">>), Str(<<"\\">>), Str(<<"<", "&", ">">>),
      Str(<<"\n">>),
      Num(<<"0">>), Num(<<"4", "2">>), Num(<<"0", ".", "5", "0">>), Num(<<"1", "e", "3">>),
      Num(<<"1", "2", "3", "4", "5", "6", "7", "8", "9", "0", "1", "2", "3", "4", "5", "6", "7", "8", "9", "0", "1">>),
      Bool(TRUE), Bool(FALSE), Null }

Sequences ==
    {Val("arr", <<>>, <<>>)} \cup {Val("arr", <<>>, <<a>>) : a \in Atoms}
    \cup {Val("arr", <<>>, <<a, b>>) : a \in Atoms, b \in {Str(<<"a">>), Num(<<"4", "2">>), Null}}

Mappings ==
    {Val("obj", <<>>, EmptyMap)}
    \cup {Val("obj", <<>>, PutKey(EmptyMap, <<"k">>, a)) : a \in Atoms \cup Sequences}
    \cup {Val("obj", <<>>, PutKey(PutKey(EmptyMap, <<"k">>, a), <<"b">>, Bool(TRUE))) : a \in Atoms}

DecodedValues == Atoms \cup Sequences \cup Mappings

\* Decode and Parse of the documents and texts above, worked out once.
Decoded == [input \in Inputs \cup ValueDocs \cup NumberDocs \cup {inArray} |-> Decode(input)]

Parsed == [text \in TemplateTexts \cup {tmplBool, tmplToJSON} |-> ParseTemplate(text, 1, templateFuncs, <<>>)]

(***************************************************************************)
(* Rule files: json.Unmarshal into config.Rule, Rule.Validate, and the     *)
(* directory LoadRules reads.                                              *)
(***************************************************************************)
\* The json tags of Rule, RuleAPI, Transform and TargetMQTT.
Tags ==
    [id |-> <<"i", "d">>, description |-> <<"d", "e", "s", "c", "r", "i", "p", "t", "i", "o", "n">>,
     api |-> <<"a", "p", "i">>, method |-> <<"m", "e", "t", "h", "o", "d">>,
     path |-> <<"p", "a", "t", "h">>,
     transform |-> <<"t", "r", "a", "n", "s", "f", "o", "r", "m">>,
     template |-> <<"t", "e", "m", "p", "l", "a", "t", "e">>,
     target |-> <<"t", "a", "r", "g", "e", "t">>, topic |-> <<"t", "o", "p", "i", "c">>,
     qos |-> <<"q", "o", "s">>, retain |-> <<"r", "e", "t", "a", "i", "n">>]

\* The member of an object the decoder assigns to a field; null when the
\* value is no object or lacks the key, which leaves the field as it is.
\* (The rule files of the model write their keys as the tags spell them.)
Member(v, key) == IF v.t = "obj" /\ key \in DOMAIN v.c THEN v.c[key] ELSE Null

\* The decoder stores a value of type t, and skips null; any other value is
\* an UnmarshalTypeError.
Fits(v, t) == v.t \in {t, "null"}

\* strconv.ParseInt accepts the literal of a number: digits after an
\* optional minus sign.
IsIntLiteral(s) ==
    /\ Len(s) > (IF s[1] = "-" THEN 1 ELSE 0)
    /\ \A k \in 1..Len(s) : s[k] \in Digits \/ (k = 1 /\ s[k] = "-")

IntValue(s) == IF s[1] = "-" THEN 0 - DigitsValue(Tail(s), 0) ELSE DigitsValue(s, 0)

\* The int a field gets: 0 when the key is absent or null.
IntField(v) == IF v.t = "num" /\ IsIntLiteral(v.s) THEN IntValue(v.s) ELSE 0

\* The Rule a decoded document fills, and whether every member fitted its
\* field.
DecodeRule(v) ==
    [ok |-> /\ Fits(v, "obj")
            /\ Fits(Member(v, Tags.id), "str")
            /\ Fits(Member(v, Tags.description), "str")
            /\ Fits(Member(v, Tags.api), "obj")
            /\ Fits(Member(Member(v, Tags.api), Tags.method), "str")
            /\ Fits(Member(Member(v, Tags.api), Tags.path), "str")
            /\ Fits(Member(v, Tags.transform), "obj")
            /\ Fits(Member(Member(v, Tags.transform), Tags.template), "str")
            /\ Fits(Member(v, Tags.target), "obj")
            /\ Fits(Member(Member(v, Tags.target), Tags.topic), "str")
            /\ Fits(Member(Member(v, Tags.target), Tags.qos), "num")
            /\ (Member(Member(v, Tags.target), Tags.qos).t = "num"
                    => IsIntLiteral(Member(Member(v, Tags.target), Tags.qos).s))
            /\ Fits(Member(Member(v, Tags.target), Tags.retain), "bool"),
     rule |-> [ID |-> Member(v, Tags.id).s,
               API |-> [Method |-> Member(Member(v, Tags.api), Tags.method).s,
                        Path |-> Member(Member(v, Tags.api), Tags.path).s],
               Template |-> Member(Member(v, Tags.transform), Tags.template).s,
               Target |-> [Topic |-> Member(Member(v, Tags.target), Tags.topic).s,
                           QoS |-> IntField(Member(Member(v, Tags.target), Tags.qos)),
                           Retain |-> Member(Member(v, Tags.target), Tags.retain).s = <<"t", "r", "u", "e">>]]]

\* json.Unmarshal(data, &rule): a syntax error is found before anything is
\* stored.
UnmarshalRule(data) ==
    IF JsonValid(data) THEN DecodeRule(ParseValue(data, 1).v)
    ELSE [ok |-> FALSE, rule |-> DecodeRule(Null).rule]

\* An error: the chain of messages, outermost first, each with the name of
\* the value its format prints ("" when it prints none).  <<>> is nil.
Err(msg, arg) == <<[msg |-> msg, arg |-> arg]>>

\* fmt.Errorf with %w around err.
Wrap(msg, arg, err) == Err(msg, arg) \o err

\* methodRegex: ^(GET|POST|PUT|PATCH|DELETE)$
ValidateHTTPMethod(method) ==
    IF method \in {<<"G", "E", "T">>, <<"P", "O", "S", "T">>, <<"P", "U", "T">>,
                   <<"P", "A", "T", "C", "H">>, <<"D", "E", "L", "E", "T", "E">>}
    THEN <<>>
    ELSE Err("invalid HTTP method: %s", "method")

\* topicRegex: ^[^#+]+(/[^#+]+)*$ matches the non-empty texts without # and
\* + (the first class also takes the slashes).
ValidateTopic(topic) ==
    IF topic = <<>> THEN Err("topic cannot be empty", "")
    ELSE IF \E k \in 1..Len(topic) : topic[k] \in {"#", "+"}
         THEN Err("invalid topic format: %s", "topic")
    ELSE <<>>

minQoSLevel == 0

maxQoSLevel == 2

ValidateQoS(qos) ==
    IF qos < minQoSLevel \/ qos > maxQoSLevel
    THEN Err("invalid QoS level: %d, must be between %d and %d", "qos")
    ELSE <<>>

\* The function names Rule.Validate gives the template it parses.
validationFuncs == {fnToJSON, fnFromJSON, fnNow, fnNum, fnBool}

\* Rule.Validate: the error of the first check that fails, <<>> for nil.
Validate(r) ==
    IF r.ID = <<>> THEN Err("rule ID is required", "")
    ELSE IF ValidateHTTPMethod(r.API.Method) # <<>>
         THEN Wrap("invalid API configuration: %w", "", ValidateHTTPMethod(r.API.Method))
    ELSE IF r.API.Path = <<>> \/ r.API.Path[1] # "/" THEN Err("API path must start with /", "")
    ELSE IF r.Template = <<>> THEN Err("transformation template is required", "")
    ELSE IF ~ParseTemplate(r.Template, 1, validationFuncs, <<>>).ok
         THEN Wrap("invalid template syntax: %w", "", Err("template: validation: parse error", ""))
    ELSE IF ValidateTopic(r.Target.Topic) # <<>>
         THEN Wrap("invalid target configuration: %w", "", ValidateTopic(r.Target.Topic))
    ELSE IF ValidateQoS(r.Target.QoS) # <<>>
         THEN Wrap("invalid target configuration: %w", "", ValidateQoS(r.Target.QoS))
    ELSE <<>>

\* A template text that calls one function, on the field y if it takes an
\* argument.
CallText(fn) ==
    <<"{", "{">> \o fn \o (IF FuncArity(fn) = 1 THEN <<" ", ".", "y">> ELSE <<>>) \o <<"}", "}">>

\* A function name that nothing defines.
fnUndefined == <<"n", "m", "u">>

\* The text of a rule file with the given values; qos is written as given.
RuleFile(id, method, path, text, topic, qos) ==
    <<"{">> \o Marshal(Str(Tags.id)) \o <<":">> \o Marshal(Str(id)) \o <<",">>
    \o Marshal(Str(Tags.api)) \o <<":", "{">>
    \o Marshal(Str(Tags.method)) \o <<":">> \o Marshal(Str(method)) \o <<",">>
    \o Marshal(Str(Tags.path)) \o <<":">> \o Marshal(Str(path)) \o <<"}", ",">>
    \o Marshal(Str(Tags.transform)) \o <<":", "{">>
    \o Marshal(Str(Tags.template)) \o <<":">> \o Marshal(Str(text)) \o <<"}", ",">>
    \o Marshal(Str(Tags.target)) \o <<":", "{">>
    \o Marshal(Str(Tags.topic)) \o <<":">> \o Marshal(Str(topic)) \o <<",">>
    \o Marshal(Str(Tags.qos)) \o <<":">> \o qos \o <<"}", "}">>

\* Rule files in which each of the six checked values is good or bad.
MixedFiles ==
    { RuleFile(id, method, path, text, topic, qos) :
        id \in {<<"r", "1">>, <<>>},
        method \in {<<"P", "O", "S", "T">>, <<"p", "o", "s", "t">>},
        path \in {<<"/", "a">>, <<"a">>},
        text \in {CallText(fnNum), CallText(fnUndefined), <<>>},
        topic \in {<<"t", "1">>, <<"a", "/", "#">>, <<>>},
        qos \in {<<"1">>, <<"3">>} }

\* Rule files good in everything but, at most, the function the template
\* calls.
CallFiles ==
    { RuleFile(<<"r", "1">>, <<"P", "U", "T">>, <<"/">>, CallText(fn), <<"a", "/", "b">>, <<"0">>) :
        fn \in templateFuncs \cup {fnUndefined} }

\* Files json.Unmarshal does not take: cut short, a QoS that is a string, a
\* QoS with a fraction; and null, which it takes and which stores nothing.
OddFiles ==
    { <<"{", "\"", "i", "d", "\"", ":">>,
      RuleFile(<<"r", "1">>, <<"G", "E", "T">>, <<"/", "a">>, CallText(fnNum), <<"t", "1">>, <<"\"", "1", "\"">>),
      RuleFile(<<"r", "1">>, <<"G", "E", "T">>, <<"/", "a">>, CallText(fnNum), <<"t", "1">>, <<"1", ".", "5">>),
      <<"n", "u", "l", "l">> }

\* A directory entry.
Entry(name, isDir, readable, data) ==
    [name |-> name, isDir |-> isDir, readable |-> readable, data |-> data]

\* Entries of a rules directory, in the order of their names: two rules, a
\* third with the id of the first, a sub-directory, a file of another
\* extension, a file cut short, a rule with a bad QoS, a file that cannot be
\* read.
Listing ==
    << Entry(<<"a", ".", "j", "s", "o", "n">>, FALSE, TRUE,
             RuleFile(<<"r", "1">>, <<"P", "O", "S", "T">>, <<"/", "a">>, CallText(fnNum), <<"t", "1">>, <<"1">>)),
       Entry(<<"b", ".", "j", "s", "o", "n">>, FALSE, TRUE,
             RuleFile(<<"r", "2">>, <<"G", "E", "T">>, <<"/", "b">>, CallText(fnBool), <<"t", "2">>, <<"0">>)),
       Entry(<<"c", ".", "j", "s", "o", "n">>, FALSE, TRUE,
             RuleFile(<<"r", "1">>, <<"P", "U", "T">>, <<"/", "c">>, CallText(fnNow), <<"t", "2">>, <<"2">>)),
       Entry(<<"d", ".", "j", "s", "o", "n">>, TRUE, TRUE, <<>>),
       Entry(<<"e", ".", "t", "x", "t">>, FALSE, TRUE, <<"{", "\"", "i", "d", "\"", ":">>),
       Entry(<<"f", ".", "j", "s", "o", "n">>, FALSE, TRUE, <<"{", "\"", "i", "d", "\"", ":">>),
       Entry(<<"g", ".", "j", "s", "o", "n">>, FALSE, TRUE,
             RuleFile(<<"r", "3">>, <<"G", "E", "T">>, <<"/", "g">>, CallText(fnNum), <<"t", "1">>, <<"3">>)),
       Entry(<<"h", ".", "j", "s", "o", "n">>, FALSE, FALSE, <<>>) >>

\* The entries of Listing at the positions in picked.
RECURSIVE Pick(_, _)
Pick(picked, i) ==
    IF i > Len(Listing) THEN <<>>
    ELSE (IF i \in picked THEN <<Listing[i]>> ELSE <<>>) \o Pick(picked, i + 1)

\* The directories LoadRules is given: one that cannot be listed, those
\* holding one rule file, and those holding some of the entries of Listing.
\* os.ReadDir returns the entries sorted by name.
Dirs ==
    {[listed |-> FALSE, entries |-> <<>>]}
    \cup {[listed |-> TRUE, entries |-> <<Entry(<<"r", ".", "j", "s", "o", "n">>, FALSE, TRUE, data)>>] :
            data \in MixedFiles \cup CallFiles \cup OddFiles}
    \cup {[listed |-> TRUE, entries |-> Pick(picked, 1)] : picked \in SUBSET (1..Len(Listing))}

\* filepath.Ext: the suffix of the name from its last dot on.
Ext(name) ==
    IF \A k \in 1..Len(name) : name[k] # "." THEN <<>>
    ELSE SubSeq(name, CHOOSE k \in 1..Len(name) :
                        name[k] = "." /\ \A j \in (k + 1)..Len(name) : name[j] # ".",
                Len(name))

\* An entry the loop passes over, whatever its extension.
SkippedOnlyDirs(entry) == entry.isDir

\* file.IsDir() || filepath.Ext(file.Name()) != ".json"
Skipped(entry) == entry.isDir \/ Ext(entry.name) # <<".", "j", "s", "o", "n">>

IdleLoader ==
    [pc |-> "idle", dir |-> [listed |-> FALSE, entries |-> <<>>], i |-> 0, rules |-> <<>>,
     ret |-> [rules |-> <<>>, err |-> <<>>]]

(***************************************************************************)
(* State.                                                                  *)
(***************************************************************************)
\* The goroutines that call Transform, and those that call AddTemplate and
\* RemoveTemplate.
Callers == {"c1", "c2"}

Admins == {"a1", "a2"}

\* Cells for CompiledTemplate values and pooled buffers.  A cell that nothing
\* refers to any more is reclaimed, so the live cells never exceed the rule
\* ids plus the callers.
HeapSize == 5

Addrs == 1..HeapSize

MaxBufs == 2

BufIds == 1..MaxBufs

VARIABLES
    transformer,  \* "none" before New, "ready" once New returned t, "failed" once it returned an error
    templates,    \* Transformer.templates: rule id -> address of its CompiledTemplate, 0 if none
    objects,      \* the CompiledTemplate at each address
    activeRules,  \* the value last given to metrics.SetActiveRules
    bufs,         \* contents of each bytes.Buffer
    live,         \* the buffers bufPool.New has made
    pool,         \* the buffers in bufPool
    calls,        \* each Transform caller: where its call is, its locals, what it returned
    admins,       \* each AddTemplate/RemoveTemplate caller
    cfg,          \* mqtt.Config: Reconnect.MaxRetries, Reconnect.Initial, TLS
    mq,           \* mqtt.New: where it is, its locals, what it returned
    conn,         \* the connection state of the paho client
    token,        \* the token of the start-up Connect: "none", "pending", "ok", "err"
    callbacks,    \* the connection handlers paho has started and that have not run yet
    gauge,        \* the value last given to metrics.SetMQTTConnectionStatus
    reconnections, \* metrics.IncMQTTReconnections, counted
    pubs,         \* each Publish caller
    pubMetrics,   \* per topic: publish attempts, failures and durations recorded
    pubReturns,   \* per topic: Publish calls made, and those that returned an error
    closer,       \* the caller of Close
    server,       \* the HTTP server: its rules, and the request each handler is serving
    loader,       \* LoadRules: where it is, its locals, what it returned
    router,       \* NewServer: the rule map and the routes registered, and the last request dispatched
    health,       \* the caller of IsConnected
    applied       \* a template function applied by itself: its argument and what it returned

trVars == <<transformer, templates, objects, activeRules, bufs, live, pool, calls, admins>>

mqVars == <<cfg, mq, conn, token, callbacks, gauge, reconnections, pubs, pubMetrics, pubReturns, closer>>

\* The state of the router, of the health probe and of the function applied.
xVars == <<router, health, applied>>

hVars == <<server, loader, xVars>>

NoTemplate == [ID |-> "", Template |-> <<>>]

NilBytes == [kind |-> "nil", bytes |-> <<>>, buf |-> 0]

\* A []byte is a view of an array: of one of its own, or of a buffer's.
OwnBytes(b) == [kind |-> "own", bytes |-> b, buf |-> 0]

BufBytes(id) == [kind |-> "buf", bytes |-> <<>>, buf |-> id]

\* The bytes a []byte shows now.
View(sl) ==
    CASE sl.kind = "own" -> sl.bytes
      [] sl.kind = "buf" -> bufs[sl.buf]
      [] OTHER -> <<>>

IdleCall ==
    [pc |-> "idle", ruleID |-> "", input |-> <<>>, tmpl |-> 0,
     env |-> CHOOSE e \in Envs : TRUE, idx |-> 0, buf |-> 0, result |-> NilBytes,
     err |-> "", loaded |-> NoTemplate, events |-> <<>>]

IdleAdmin ==
    [pc |-> "idle", op |-> "", id |-> "", count |-> 0, err |-> "",
     events |-> <<>>]

Count(tmpls) == Cardinality({id \in RuleIds : tmpls[id] # 0})

\* The addresses something still refers to: the registry, and the compiled
\* template a running Transform has loaded.
Referenced(tmpls, cs) ==
    {tmpls[id] : id \in RuleIds} \cup {cs[c].tmpl : c \in Callers}

\* The references in a fixed order: the registry's, then the callers'.
RefSeq(tmpls, cs) == <<tmpls["r1"], tmpls["r2"], cs["c1"].tmpl, cs["c2"].tmpl>>

\* Where the cell at address a goes when the live cells are moved together:
\* cells are numbered in the order RefSeq first mentions them.
Moved(tmpls, cs, a) ==
    IF a = 0 THEN 0
    ELSE LET refs == RefSeq(tmpls, cs)
             first == CHOOSE i \in 1..Len(refs) : refs[i] = a /\ \A j \in 1..(i - 1) : refs[j] # a
         IN  Cardinality({refs[j] : j \in 1..first} \ {0})

\* Garbage collection: the cells nothing refers to are reclaimed and the live
\* ones moved together, every reference following its cell.  What a reference
\* points at does not change.
Collect(tmpls, objs, cs) ==
    [templates |-> [id \in RuleIds |-> Moved(tmpls, cs, tmpls[id])],
     objects |-> [n \in Addrs |->
                    IF \E a \in Referenced(tmpls, cs) \ {0} : Moved(tmpls, cs, a) = n
                    THEN objs[CHOOSE a \in Referenced(tmpls, cs) \ {0} : Moved(tmpls, cs, a) = n]
                    ELSE NoTemplate],
     calls |-> [c \in Callers |-> [cs[c] EXCEPT !.tmpl = Moved(tmpls, cs, cs[c].tmpl)]]]

FreeAddr(objs, tmpls, cs) ==
    CHOOSE a \in Addrs :
        /\ a \notin Referenced(tmpls, cs)
        /\ \A b \in Addrs : b \notin Referenced(tmpls, cs) => a <= b

(***************************************************************************)
(* The registry: compileTemplate, New, AddTemplate, RemoveTemplate.        *)
(***************************************************************************)
\* A store that overwrites the compiled template the id already points at.
StoreInPlace(tmpls, objs, cs, id, ct) ==
    IF tmpls[id] # 0
    THEN [templates |-> tmpls, objects |-> [objs EXCEPT ![tmpls[id]] = ct]]
    ELSE [templates |-> [tmpls EXCEPT ![id] = FreeAddr(objs, tmpls, cs)],
          objects |-> [objs EXCEPT ![FreeAddr(objs, tmpls, cs)] = ct]]

\* templates.Store(id, &CompiledTemplate{...}): the value goes into a cell of
\* its own and the id is pointed at it; a value stored before is left as it is.
Store(tmpls, objs, cs, id, ct) ==
    LET a == FreeAddr(objs, tmpls, cs)
    IN  [templates |-> [tmpls EXCEPT ![id] = a], objects |-> [objs EXCEPT ![a] = ct]]

\* templates.Delete(id).
Delete(tmpls, id) == [tmpls EXCEPT ![id] = 0]

\* The state after a collection of the given heap.
Collected(tmpls, objs, cs) ==
    LET h == Collect(tmpls, objs, cs)
    IN  templates' = h.templates /\ objects' = h.objects /\ calls' = h.calls

\* A compileTemplate that stores before it looks at the parse error.
compileTemplateStoreFirst(tmpls, objs, cs, id, text) ==
    LET p == Parsed[text]
        st == Store(tmpls, objs, cs, id, [ID |-> id, Template |-> p.nodes])
    IN  [ok |-> p.ok, templates |-> st.templates, objects |-> st.objects]

\* compileTemplate: parse, and store only what parsed.
compileTemplate(tmpls, objs, cs, id, text) ==
    LET p == Parsed[text]
        st == Store(tmpls, objs, cs, id, [ID |-> id, Template |-> p.nodes])
    IN  IF ~p.ok
        THEN [ok |-> FALSE, templates |-> tmpls, objects |-> objs]
        ELSE [ok |-> TRUE, templates |-> st.templates, objects |-> st.objects]

\* The loop of New over the rules, stopping at the first that fails.
RECURSIVE CompileAll(_, _, _, _)
CompileAll(rules, tmpls, objs, cs) ==
    IF Len(rules) = 0 THEN [ok |-> TRUE, templates |-> tmpls, objects |-> objs]
    ELSE LET r == compileTemplate(tmpls, objs, cs, rules[1].ID, rules[1].Template)
         IN  IF ~r.ok THEN r
             ELSE LET h == Collect(r.templates, r.objects, cs)
                  IN  CompileAll(Tail(rules), h.templates, h.objects, cs)

\* New(logger, rules, recorder): runs before anything else can call t.
New ==
    /\ transformer = "none"
    /\ \E rules \in RuleLists :
        \E r \in {CompileAll(rules, templates, objects, calls)} :
            IF r.ok
            THEN /\ transformer' = "ready"
                 /\ templates' = r.templates
                 /\ objects' = r.objects
                 /\ activeRules' = Len(rules)
            ELSE /\ transformer' = "failed"
                 /\ UNCHANGED <<templates, objects, activeRules>>
    /\ UNCHANGED <<bufs, live, pool, calls, admins, mqVars, hVars>>

\* AddTemplate up to the end of compileTemplate: a failure returns at once.
AddTemplateBegin(a, id, text) ==
    /\ transformer = "ready"
    /\ admins[a].pc \in {"idle", "done"}
    /\ LET r == compileTemplate(templates, objects, calls, id, text)
       IN  IF r.ok
           THEN /\ Collected(r.templates, r.objects, calls)
                /\ admins' = [admins EXCEPT ![a] =
                        [IdleAdmin EXCEPT !.pc = "count", !.op = "add", !.id = id]]
           ELSE /\ Collected(r.templates, r.objects, calls)
                /\ admins' = [admins EXCEPT ![a] =
                        [IdleAdmin EXCEPT !.pc = "done", !.op = "add", !.id = id,
                                          !.err = "compile",
                                          !.events = <<"template_error", "template_error">>]]
    /\ UNCHANGED <<transformer, activeRules, bufs, live, pool, mqVars, hVars>>

\* RemoveTemplate: templates.Delete(id).
RemoveTemplateBegin(a, id) ==
    /\ transformer = "ready"
    /\ admins[a].pc \in {"idle", "done"}
    /\ Collected(Delete(templates, id), objects, calls)
    /\ admins' = [admins EXCEPT ![a] = [IdleAdmin EXCEPT !.pc = "count", !.op = "remove", !.id = id]]
    /\ UNCHANGED <<transformer, activeRules, bufs, live, pool, mqVars, hVars>>

\* The templates.Range that counts the entries.
CountTemplates(a) ==
    /\ admins[a].pc = "count"
    /\ admins' = [admins EXCEPT ![a].pc = "set", ![a].count = Count(templates)]
    /\ UNCHANGED <<transformer, templates, objects, activeRules, bufs, live, pool, calls, mqVars, hVars>>

\* metrics.SetActiveRules(count), and the return.
SetActiveRules(a) ==
    /\ admins[a].pc = "set"
    /\ activeRules' = admins[a].count
    /\ admins' = [admins EXCEPT ![a].pc = "done", ![a].count = 0]
    /\ UNCHANGED <<transformer, templates, objects, bufs, live, pool, calls, mqVars, hVars>>

(***************************************************************************)
(* Transform.                                                              *)
(***************************************************************************)
ErrNotFound == "template not found"

ErrParse == "failed to parse input data"

ErrExecute == "failed to execute template"

ErrInvalid == "template output is not valid JSON"

\* The early returns with the input decoded before the template is looked up.
EarlyErrorDecodeFirst(exists, input) ==
    IF ~Decoded[input].ok THEN ErrParse
    ELSE IF ~exists THEN ErrNotFound
    ELSE ""

\* The early returns before a buffer is taken: the lookup comes first, the
\* decoding second.  "" when neither fails.
EarlyError(exists, input) ==
    IF ~exists THEN ErrNotFound
    ELSE IF ~Decoded[input].ok THEN ErrParse
    ELSE ""

\* A buffer taken from the pool and used as it comes.
ResetNothing(b) == b

\* buf.Reset().
Reset(b) == <<>>

\* An output that is never validated.
ValidOutputSkipped(output) == TRUE

\* json.Valid(output).
ValidOutput(output) == JsonValid(output)

\* The output handed back as it is: a view of the pooled buffer.
CopyOutAlias(output) == output

\* result := make([]byte, len(output)); copy(result, output).
CopyOut(output) == OwnBytes(View(output))

\* What a failing return hands back besides the error.
ErrorBytes(output) == NilBytes

UsesClock(nodes) ==
    \E i \in 1..Len(nodes) : nodes[i].k = "call" /\ nodes[i].fn \in {fnNow, fnUuid7}

\* Transform up to the decoding of the input: ObserveTransformInputSize, the
\* Load of the compiled template, the decoder.
TransformCall(c, id, input) ==
    /\ transformer = "ready"
    /\ calls[c].pc \in {"idle", "done"}
    /\ \E e \in {EarlyError(templates[id] # 0, input)} :
           calls' = [calls EXCEPT ![c] =
                IF e # ""
                THEN [IdleCall EXCEPT !.pc = "done", !.ruleID = id, !.input = input, !.err = e,
                                      !.events = <<"input_size", "transform_error">>]
                ELSE [IdleCall EXCEPT !.pc = "getbuf", !.ruleID = id, !.input = input,
                                      !.tmpl = templates[id],
                                      !.loaded = objects[templates[id]],
                                      !.events = <<"input_size">>]]

\* A caller of its own starts Transform.
TransformBegin(c, id, input) ==
    /\ TransformCall(c, id, input)
    /\ UNCHANGED <<transformer, templates, objects, activeRules, bufs, live, pool, admins, mqVars, hVars>>

\* The buffers bufPool.Get() can return: a pooled one, or one New makes.
Gettable ==
    pool \cup (IF live = BufIds THEN {}
               ELSE {CHOOSE b \in BufIds \ live : \A o \in BufIds \ live : b <= o})

\* buf := bufPool.Get(); buf.Reset(); the clock as this execution reads it.
TransformGetBuf(c) ==
    /\ calls[c].pc = "getbuf"
    /\ \E b \in Gettable :
        \E env \in IF UsesClock(objects[calls[c].tmpl].Template) THEN Envs ELSE {IdleCall.env} :
            /\ pool' = pool \ {b}
            /\ live' = live \cup {b}
            /\ bufs' = [bufs EXCEPT ![b] = Reset(bufs[b])]
            /\ calls' = [calls EXCEPT ![c].pc = "exec", ![c].buf = b, ![c].idx = 1, ![c].env = env]
    /\ UNCHANGED <<transformer, templates, objects, activeRules, admins, mqVars, hVars>>

\* The return of Transform: the deferred bufPool.Put(buf), and the compiled
\* template is no longer held.
Return(c, result, err, events) ==
    /\ pool' = pool \cup {calls[c].buf}
    /\ Collected(templates, objects,
                 [calls EXCEPT ![c].pc = "done", ![c].result = result, ![c].err = err,
                               ![c].events = calls[c].events \o events,
                               ![c].buf = 0, ![c].tmpl = 0, ![c].idx = 0])

\* Template.Execute, one node at a time, reading the compiled template the
\* call loaded and writing into the buffer.
TransformExec(c) ==
    /\ calls[c].pc = "exec"
    /\ calls[c].idx <= Len(objects[calls[c].tmpl].Template)
    /\ \E r \in {ExecNode(objects[calls[c].tmpl].Template[calls[c].idx], Decoded[calls[c].input].data, calls[c].env)} :
           IF r.ok
           THEN /\ bufs' = [bufs EXCEPT ![calls[c].buf] = @ \o r.out]
                /\ calls' = [calls EXCEPT ![c].idx = @ + 1]
                /\ UNCHANGED <<pool, objects, templates>>
           ELSE /\ Return(c, ErrorBytes(BufBytes(calls[c].buf)), ErrExecute, <<"template_error">>)
                /\ UNCHANGED bufs
    /\ UNCHANGED <<transformer, activeRules, live, admins, mqVars, hVars>>

\* After Execute: the validation of the output, the copy, the metrics.
TransformFinish(c) ==
    /\ calls[c].pc = "exec"
    /\ calls[c].idx > Len(objects[calls[c].tmpl].Template)
    /\ LET output == BufBytes(calls[c].buf)
       IN  IF ValidOutput(View(output))
           THEN Return(c, CopyOut(output), "", <<"duration", "output_size">>)
           ELSE Return(c, ErrorBytes(output), ErrInvalid, <<"transform_error">>)
    /\ UNCHANGED <<transformer, activeRules, bufs, live, admins, mqVars, hVars>>

(***************************************************************************)
(* internal/mqtt: the delivery client.                                     *)
(***************************************************************************)
\* Reconnect.MaxRetries is drawn from 0..MaxRetriesCfg.
MaxRetriesCfg == 2

\* Publish calls, reconnection attempts and Close calls in one behaviour.
MaxPublishes == 2

MaxReconnects == 2

MaxCloses == 2

Publishers == {"p1", "p2"}

Topics == {"t1", "t2"}

\* A client that does not reconnect by itself.
AutoReconnectOff == FALSE

\* opts.SetAutoReconnect(true): a lost connection is re-established by the
\* client itself, with no limit on the attempts.
AutoReconnect == TRUE

\* opts.SetConnectRetry(true).
ConnectRetry == TRUE

\* paho's Client.IsConnected: connected, or on the way to it under
\* AutoReconnect / ConnectRetry.
PahoIsConnected(st) ==
    \/ st = "Connected"
    \/ AutoReconnect /\ st = "Reconnecting"
    \/ ConnectRetry /\ st = "Connecting"

IdlePub == [pc |-> "idle", topic |-> "", ret |-> ""]

\* TLSConfig as the configuration file gives it.
TLSConfig(enabled, caCert, cert, key) ==
    [Enabled |-> enabled, CACert |-> caCert, Cert |-> cert, Key |-> key]

\* TLS not enabled.
NoTLS == TLSConfig(FALSE, "", "", "")

\* The files the configuration can name: a certificate, a key that goes
\* with it, a file that cannot be read and one that holds no PEM block.
Files == [n \in {"ca.pem", "cert.pem", "key.pem", "gone.pem", "junk.pem"} |->
            CASE n = "gone.pem" -> "unreadable"
              [] n = "junk.pem" -> "unparsable"
              [] OTHER -> "ok"]

\* The client without its start-up: no time has passed, no attempt made.
NoClient ==
    [pc |-> "start", retries |-> 0, connects |-> 0, client |-> "none", err |-> "",
     errRetries |-> 0, allFailed |-> TRUE, elapsed |-> 0]

\* The client before its start-up, under one of the configurations configs,
\* at the step pc of the start-up.
InitMqttAt(configs, pc) ==
    /\ cfg \in configs
    /\ mq = [NoClient EXCEPT !.pc = pc]
    /\ conn = "Disconnected"
    /\ token = "none"
    /\ callbacks = {}
    /\ gauge = FALSE
    /\ reconnections = 0
    /\ pubs = [p \in Publishers |-> IdlePub]
    /\ pubMetrics = [t \in Topics |-> [attempts |-> 0, failures |-> 0, durations |-> 0]]
    /\ pubReturns = [t \in Topics |-> [calls |-> 0, errors |-> 0]]
    /\ closer = [pc |-> "idle", closes |-> 0, connected |-> FALSE, from |-> ""]

\* mqtt.New is about to connect, TLS not enabled, with MaxRetries from
\* maxRetries and a delay of 0 seconds: no time is counted.
InitMqtt(maxRetries) ==
    InitMqttAt([MaxRetries : maxRetries, Initial : {0}, TLS : {NoTLS}], "start")

\* A set-up that takes any file for a certificate.
createTLSConfigLax(tls) == <<>>

\* createTLSConfig: the key pair is loaded when both Cert and Key are named,
\* the CA certificate is read and parsed when it is named.  <<>> when the
\* tls.Config is made.
createTLSConfig(tls) ==
    IF tls.Cert # "" /\ tls.Key # "" /\ (Files[tls.Cert] # "ok" \/ Files[tls.Key] # "ok")
    THEN Err("failed to load client certificate: %w", tls.Cert)
    ELSE IF tls.CACert # "" /\ Files[tls.CACert] = "unreadable"
    THEN Err("failed to read CA certificate: %w", tls.CACert)
    ELSE IF tls.CACert # "" /\ Files[tls.CACert] = "unparsable"
    THEN Err("failed to parse CA certificate", "")
    ELSE <<>>

\* AppConfig.Validate, the check of the TLS settings: <<>> when they pass.
ValidateConfig(tls) ==
    IF tls.Enabled /\ tls.CACert = ""
    THEN Err("CA certificate is required when TLS is enabled", "")
    ELSE <<>>

\* What New returns when it gives up: no client.
GiveUp(m, err) == [m EXCEPT !.pc = "done", !.client = "nil", !.err = err, !.errRetries = m.retries]

\* config.LoadConfig in main: a configuration Validate rejects ends the
\* program before mqtt.New is called.
LoadConfig ==
    /\ mq.pc = "config"
    /\ mq' = IF ValidateConfig(cfg.TLS) # <<>> THEN GiveUp(mq, "invalid configuration")
             ELSE [mq EXCEPT !.pc = "new"]
    /\ UNCHANGED <<cfg, conn, token, callbacks, gauge, reconnections, pubs, pubMetrics, pubReturns, closer, trVars, hVars>>

\* New up to the loop: the options, and the TLS configuration when TLS is
\* enabled.
NewConfigure ==
    /\ mq.pc = "new"
    /\ mq' = IF cfg.TLS.Enabled /\ createTLSConfig(cfg.TLS) # <<>>
             THEN GiveUp(mq, "failed to create TLS config")
             ELSE [mq EXCEPT !.pc = "start"]
    /\ UNCHANGED <<cfg, conn, token, callbacks, gauge, reconnections, pubs, pubMetrics, pubReturns, closer, trVars, hVars>>

\* token := mqttClient.Connect(), at the top of the loop of New.
NewConnect ==
    /\ mq.pc \in {"start", "retry"}
    /\ mq' = [mq EXCEPT !.pc = "wait", !.connects = @ + 1]
    /\ token' = "pending"
    /\ conn' = "Connecting"
    /\ UNCHANGED <<cfg, callbacks, gauge, reconnections, pubs, pubMetrics, pubReturns, closer, trVars, hVars>>

\* The broker accepts the connection: the token completes without error and
\* paho starts the OnConnect handler.
ConnectAccepted ==
    /\ token = "pending"
    /\ token' = "ok"
    /\ conn' = "Connected"
    /\ callbacks' = callbacks \cup {"onConnect"}
    /\ UNCHANGED <<cfg, mq, gauge, reconnections, pubs, pubMetrics, pubReturns, closer, trVars, hVars>>

\* The attempt fails: the token completes with an error.
ConnectRefused ==
    /\ token = "pending"
    /\ token' = "err"
    /\ conn' = "Disconnected"
    /\ UNCHANGED <<cfg, mq, callbacks, gauge, reconnections, pubs, pubMetrics, pubReturns, closer, trVars, hVars>>

\* The test with one retry more allowed.
RetriesExhaustedLate(retries, maxRetries) == retries > maxRetries

\* retries >= cfg.Reconnect.MaxRetries, the test that ends the retries.
RetriesExhausted(retries, maxRetries) == retries >= maxRetries

\* A delay that doubles the configured one.
RetryDelayDoubled(initial) == 2 * initial

\* time.Sleep(time.Duration(cfg.Reconnect.Initial) * time.Second).
RetryDelay(initial) == initial

\* token.WaitTimeout returned true: the token completed in the window, d
\* seconds after it opened.
NewAcked ==
    /\ mq.pc = "wait"
    /\ token \in {"ok", "err"}
    /\ \E d \in 0..cfg.Initial :
        IF token = "err"
        THEN IF RetriesExhausted(mq.retries, cfg.MaxRetries)
             THEN /\ mq' = [GiveUp(mq, "failed to connect after retries") EXCEPT !.elapsed = @ + d]
                  /\ UNCHANGED gauge
             ELSE /\ gauge' = FALSE
                  /\ mq' = [mq EXCEPT !.pc = "retry", !.retries = @ + 1,
                                      !.elapsed = @ + d + RetryDelay(cfg.Initial)]
        ELSE /\ mq' = [mq EXCEPT !.pc = "connected", !.allFailed = FALSE, !.elapsed = @ + d]
             /\ UNCHANGED gauge
    /\ UNCHANGED <<cfg, conn, token, callbacks, reconnections, pubs, pubMetrics, pubReturns, closer, trVars, hVars>>

\* An unacknowledged attempt handled as a failed one is: retried while
\* retries remain.
UnacknowledgedRetried(m, maxRetries) ==
    IF RetriesExhausted(m.retries, maxRetries) THEN GiveUp(m, "connection timeout")
    ELSE [m EXCEPT !.pc = "retry", !.retries = @ + 1]

\* return nil, fmt.Errorf("connection timeout"), whatever retries remain.
Unacknowledged(m, maxRetries) == GiveUp(m, "connection timeout")

\* token.WaitTimeout returned false: no acknowledgment in the window.  The
\* paho client goes on with the attempt.
NewTimeout ==
    /\ mq.pc = "wait"
    /\ token = "pending"
    /\ mq' = [Unacknowledged(mq, cfg.MaxRetries) EXCEPT !.allFailed = FALSE,
                                                       !.elapsed = @ + cfg.Initial]
    /\ UNCHANGED <<cfg, conn, token, callbacks, gauge, reconnections, pubs, pubMetrics, pubReturns, closer, trVars, hVars>>

\* After the loop: SetMQTTConnectionStatus(true); return client, nil.
NewReturn ==
    /\ mq.pc = "connected"
    /\ gauge' = TRUE
    /\ mq' = [mq EXCEPT !.pc = "done", !.client = "ready"]
    /\ UNCHANGED <<cfg, conn, token, callbacks, reconnections, pubs, pubMetrics, pubReturns, closer, trVars, hVars>>

\* The transport drops.  paho starts the ConnectionLost handler and, under
\* AutoReconnect, begins to reconnect.
ConnectionLost ==
    /\ conn = "Connected"
    /\ conn' = IF AutoReconnect THEN "Reconnecting" ELSE "Disconnected"
    /\ callbacks' = callbacks \cup {"connectionLost"}
    /\ UNCHANGED <<cfg, mq, token, gauge, reconnections, pubs, pubMetrics, pubReturns, closer, trVars, hVars>>

\* A reconnection attempt that fails: the Reconnecting handler has run, and
\* the client waits (at most MaxReconnectInterval) and tries again.
ReconnectFailed ==
    /\ conn = "Reconnecting"
    /\ reconnections < MaxReconnects
    /\ reconnections' = reconnections + 1
    /\ UNCHANGED <<cfg, mq, conn, token, callbacks, gauge, pubs, pubMetrics, pubReturns, closer, trVars, hVars>>

\* A reconnection attempt the broker accepts.
Reconnected ==
    /\ conn = "Reconnecting"
    /\ conn' = "Connected"
    /\ reconnections' = IF reconnections < MaxReconnects THEN reconnections + 1 ELSE reconnections
    /\ callbacks' = callbacks \cup {"onConnect"}
    /\ UNCHANGED <<cfg, mq, token, gauge, pubs, pubMetrics, pubReturns, closer, trVars, hVars>>

\* A connection handler runs: each sets the connection-status gauge.
RunCallback ==
    /\ \E cb \in callbacks :
        /\ callbacks' = callbacks \ {cb}
        /\ gauge' = (cb = "onConnect")
    /\ UNCHANGED <<cfg, mq, conn, token, reconnections, pubs, pubMetrics, pubReturns, closer, trVars, hVars>>

\* Publish up to the wait for the token: IncMQTTPublishAttempts, then
\* c.client.Publish.
PublishCall(p, topic) ==
    /\ mq.client = "ready"
    /\ pubs[p].pc \in {"idle", "done"}
    /\ pubReturns["t1"].calls + pubReturns["t2"].calls < MaxPublishes
    /\ pubs' = [pubs EXCEPT ![p] = [pc |-> "wait", topic |-> topic, ret |-> ""]]
    /\ pubMetrics' = [pubMetrics EXCEPT ![topic].attempts = @ + 1]
    /\ pubReturns' = [pubReturns EXCEPT ![topic].calls = @ + 1]

\* A caller of its own starts Publish.
PublishBegin(p, topic) ==
    /\ PublishCall(p, topic)
    /\ UNCHANGED <<cfg, mq, conn, token, callbacks, gauge, reconnections, closer, trVars, hVars>>

\* The metrics of the three ways out of Publish.
TimeoutMetricsNone(m) == m

TimeoutMetrics(m) == [m EXCEPT !.failures = @ + 1]

BrokerErrorMetrics(m) == [m EXCEPT !.failures = @ + 1]

SuccessMetrics(m) == [m EXCEPT !.durations = @ + 1]

PublishReturn(p, ret, metrics) ==
    /\ pubs' = [pubs EXCEPT ![p].pc = "done", ![p].ret = ret]
    /\ pubMetrics' = [pubMetrics EXCEPT ![pubs[p].topic] = metrics]
    /\ pubReturns' = [pubReturns EXCEPT ![pubs[p].topic].errors = IF ret = "nil" THEN @ ELSE @ + 1]

\* token.WaitTimeout(10 * time.Second) returned false.
PublishTimeout(p) ==
    /\ pubs[p].pc = "wait"
    /\ PublishReturn(p, "publish timeout", TimeoutMetrics(pubMetrics[pubs[p].topic]))
    /\ UNCHANGED <<cfg, mq, conn, token, callbacks, gauge, reconnections, closer, trVars, hVars>>

\* The token completed with an error of the broker or of the client (a
\* closed client completes every publish with "not connected").
PublishFailed(p) ==
    /\ pubs[p].pc = "wait"
    /\ PublishReturn(p, "broker error", BrokerErrorMetrics(pubMetrics[pubs[p].topic]))
    /\ UNCHANGED <<cfg, mq, conn, token, callbacks, gauge, reconnections, closer, trVars, hVars>>

\* The token completed without error.
PublishAcked(p) ==
    /\ pubs[p].pc = "wait"
    /\ conn # "Closed"
    /\ PublishReturn(p, "nil", SuccessMetrics(pubMetrics[pubs[p].topic]))
    /\ UNCHANGED <<cfg, mq, conn, token, callbacks, gauge, reconnections, closer, trVars, hVars>>

\* A Disconnect that leaves the connection as it is.
DisconnectNothing(st) == st

\* c.client.Disconnect(250): the connection is closed for good, also one that
\* was being re-established.
Disconnect(st) == "Closed"

\* Close: the test c.client.IsConnected().
CloseBegin ==
    /\ mq.client = "ready"
    /\ closer.pc \in {"idle", "done"}
    /\ closer.closes < MaxCloses
    /\ closer' = IF PahoIsConnected(conn)
                 THEN [closer EXCEPT !.pc = "disconnect", !.connected = TRUE, !.from = conn]
                 ELSE [closer EXCEPT !.pc = "done", !.connected = FALSE, !.from = conn,
                                     !.closes = @ + 1]
    /\ UNCHANGED <<cfg, mq, conn, token, callbacks, gauge, reconnections, pubs, pubMetrics, pubReturns, trVars, hVars>>

CloseDisconnect ==
    /\ closer.pc = "disconnect"
    /\ conn' = Disconnect(conn)
    /\ closer' = [closer EXCEPT !.pc = "setgauge"]
    /\ UNCHANGED <<cfg, mq, token, callbacks, gauge, reconnections, pubs, pubMetrics, pubReturns, trVars, hVars>>

\* c.metrics.SetMQTTConnectionStatus(false), and the return of Close.
CloseReturn ==
    /\ closer.pc = "setgauge"
    /\ gauge' = FALSE
    /\ closer' = [closer EXCEPT !.pc = "done", !.closes = @ + 1]
    /\ UNCHANGED <<cfg, mq, conn, token, callbacks, reconnections, pubs, pubMetrics, pubReturns, trVars, hVars>>

\* c.client != nil && c.client.IsConnected(), for a client in the state st.
Connected(hasClient, st) == hasClient /\ PahoIsConnected(st)

\* IsConnected as handleHealth calls it on the client New returned: the
\* state of the paho client is read.
IsConnectedBegin ==
    /\ mq.client = "ready"
    /\ health.pc \in {"idle", "done"}
    /\ health' = [pc |-> "set", connected |-> Connected(TRUE, conn), ret |-> FALSE]
    /\ UNCHANGED <<mqVars, trVars, server, loader, router, applied>>

\* c.metrics.SetMQTTConnectionStatus(connected); return connected.
IsConnectedReturn ==
    /\ health.pc = "set"
    /\ gauge' = health.connected
    /\ health' = [health EXCEPT !.pc = "done", !.ret = health.connected]
    /\ UNCHANGED <<cfg, mq, conn, token, callbacks, reconnections, pubs, pubMetrics, pubReturns, closer, trVars, server, loader, router, applied>>

(***************************************************************************)
(* The transformer under concurrent callers.                               *)
(***************************************************************************)
(***************************************************************************)
(* internal/api: the handler of a rule's endpoint.                          *)
(***************************************************************************)
Handlers == {"h1"}

\* What io.ReadAll gives the handler: the body, or an error.
ReadError == <<"E", "O", "F">>

Bodies == Inputs \cup {inArray, ReadError}

IdleRequest ==
    [pc |-> "idle", rule |-> Rule("", <<>>, Target("", 0, FALSE)), body |-> <<>>,
     transformed |-> NilBytes, terr |-> "", publishes |-> <<>>, responses |-> <<>>]

\* SendError / JSONResponse: one response written, and the handler returns.
Respond(req, status, message) ==
    [req EXCEPT !.pc = "done", !.responses = Append(@, [status |-> status, message |-> message])]

\* json.Valid(body) for every body a request can carry, computed once.
ValidBody == [body \in Bodies |-> JsonValid(body)]

\* The status the handler sends for a body it does not pass on: the body
\* could not be read, or is not valid JSON.  0 when it goes on.
BodyStatus(body) ==
    IF body = ReadError THEN 400
    ELSE IF ~ValidBody[body] THEN 400
    ELSE 0

\* The handler up to the call of Transform: the body is read and checked.
HandleRead(h, rule, body) ==
    /\ server.reqs[h].pc \in {"idle", "done"}
    /\ LET req == [IdleRequest EXCEPT !.rule = rule, !.body = body]
       IN  server' = [server EXCEPT !.reqs[h] =
                IF BodyStatus(body) # 0
                THEN Respond(req, BodyStatus(body),
                             IF body = ReadError THEN "Failed to read request body"
                             ELSE "Invalid JSON in request body")
                ELSE [req EXCEPT !.pc = "transform"]]
    /\ UNCHANGED <<trVars, mqVars, loader, xVars>>

\* The goroutine of a handler, as a caller of Transform and of Publish.
Worker == [h \in Handlers |-> IF h = "h1" THEN [c |-> "c1", p |-> "p1"] ELSE [c |-> "c2", p |-> "p2"]]

\* transformed, err := s.transformer.Transform(rule.ID, body): the call.
HandleTransform(h) ==
    /\ server.reqs[h].pc = "transform"
    /\ \E id \in RuleIds, input \in Bodies \ {ReadError} :
            /\ id = server.reqs[h].rule.ID
            /\ input = server.reqs[h].body
            /\ TransformCall(Worker[h].c, id, input)
    /\ server' = [server EXCEPT !.reqs[h].pc = "transforming"]
    /\ UNCHANGED <<transformer, templates, objects, activeRules, bufs, live, pool, admins, mqVars, loader, xVars>>

\* The status for the result of Transform.  0 when the handler goes on.
TransformStatus(err) == IF err # "" THEN 422 ELSE 0

\* Transform has returned: a TransformError is answered, anything else goes
\* on to Publish.
HandleTransformed(h) ==
    /\ server.reqs[h].pc = "transforming"
    /\ calls[Worker[h].c].pc = "done"
    /\ LET req == server.reqs[h]
           call == calls[Worker[h].c]
       IN  server' = [server EXCEPT !.reqs[h] =
                IF TransformStatus(call.err) # 0
                THEN Respond([req EXCEPT !.terr = call.err], TransformStatus(call.err), call.err)
                ELSE [req EXCEPT !.pc = "publish", !.transformed = call.result]]
    /\ UNCHANGED <<trVars, mqVars, loader, xVars>>

\* A handler that publishes every message at QoS 0.
PublishArgsQoS0(rule, transformed) ==
    [topic |-> rule.Target.Topic, qos |-> 0, retain |-> rule.Target.Retain,
     payload |-> View(transformed)]

\* The arguments the handler gives Publish.
PublishArgs(rule, transformed) ==
    [topic |-> rule.Target.Topic, qos |-> rule.Target.QoS, retain |-> rule.Target.Retain,
     payload |-> View(transformed)]

\* s.mqtt.Publish(rule.Target.Topic, rule.Target.QoS, rule.Target.Retain,
\* transformed): the call.
HandlePublish(h) ==
    /\ server.reqs[h].pc = "publish"
    /\ PublishCall(Worker[h].p, PublishArgs(server.reqs[h].rule, server.reqs[h].transformed).topic)
    /\ server' = [server EXCEPT !.reqs[h].pc = "publishing",
                                !.reqs[h].publishes =
                                    Append(@, PublishArgs(server.reqs[h].rule, server.reqs[h].transformed))]
    /\ UNCHANGED <<cfg, mq, conn, token, callbacks, gauge, reconnections, closer, trVars, loader, xVars>>

\* A handler that answers 200 whatever Publish returned.
PublishStatusIgnored(ret) == 200

\* The status for what Publish returned.
PublishStatus(ret) == IF ret # "nil" THEN 503 ELSE 200

\* Publish has returned, nil or an error, and the handler answers.
HandlePublished(h) ==
    /\ server.reqs[h].pc = "publishing"
    /\ pubs[Worker[h].p].pc = "done"
    /\ LET ret == pubs[Worker[h].p].ret
       IN  server' = [server EXCEPT !.reqs[h] =
                Respond(@, PublishStatus(ret),
                        IF ret # "nil" THEN "Failed to publish message" ELSE "published")]
    /\ UNCHANGED <<trVars, mqVars, loader, xVars>>

\* No function is being applied by itself.
IdleApplied == [pc |-> "idle", x |-> Null, text |-> <<>>, out |-> Null]

\* No caller of IsConnected.
IdleHealth == [pc |-> "idle", connected |-> FALSE, ret |-> FALSE]

\* A rule with the endpoint it is served at.
ApiRule(id, method, path) ==
    [ID |-> id, API |-> [Method |-> method, Path |-> path],
     Template |-> IF id = "r1" THEN tmplNum ELSE tmplStr,
     Target |-> Target(IF id = "r1" THEN "t1" ELSE "t2", 1, FALSE)]

\* No rule, and the handlers a route can be bound to.
NoRule == ApiRule("", "", "")

NoHandler == [kind |-> "none", rule |-> NoRule]

HealthHandler == [kind |-> "health", rule |-> NoRule]

TransformHandler(rule) == [kind |-> "transform", rule |-> rule]

RulePaths == {"/a", "/b"}

Paths == RulePaths \cup {"/health"}

Methods == {"GET", "POST", "PUT"}

NoRequest == [pc |-> "idle", method |-> "", path |-> "", status |-> 0, handler |-> NoHandler]

\* NewServer not called.
IdleRouter ==
    [pc |-> "idle", rules |-> <<>>, ruleMap |-> [p \in RulePaths |-> NoRule],
     routes |-> [m \in Methods, p \in Paths |-> NoHandler], req |-> NoRequest]

\* for _, rule := range cfg.Rules { ruleMap[rule.API.Path] = rule }
RECURSIVE ruleMap(_, _)
ruleMap(rules, m) ==
    IF rules = <<>> THEN m
    ELSE ruleMap(Tail(rules), [m EXCEPT ![Head(rules).API.Path] = Head(rules)])

\* setupRoutes: GET /health, then one route for each entry of the rule map,
\* under the method of the rule the entry holds.
setupRoutes(m) ==
    [method \in Methods, path \in Paths |->
        IF path \in RulePaths /\ m[path] # NoRule /\ m[path].API.Method = method
        THEN TransformHandler(m[path])
        ELSE IF path = "/health" /\ method = "GET" THEN HealthHandler
        ELSE NoHandler]

\* NewServer(cfg): the rule map, then the routes.
NewServer(rules) ==
    /\ router.pc = "idle"
    /\ router' = [router EXCEPT !.pc = "serving", !.rules = rules,
                                !.ruleMap = ruleMap(rules, router.ruleMap),
                                !.routes = setupRoutes(ruleMap(rules, router.ruleMap))]
    /\ UNCHANGED <<trVars, mqVars, server, loader, health, applied>>

\* The status chi answers with when no handler is found: 405 for a path that
\* is routed under another method, 404 for a path that is not routed.
Unrouted(routes, path) ==
    IF \E m \in Methods : routes[m, path] # NoHandler THEN 405 ELSE 404

\* ServeHTTP: the router finds the handler of the method and the path.
ServeHTTP(method, path) ==
    /\ router.pc = "serving"
    /\ router' = [router EXCEPT !.req =
            [pc |-> "done", method |-> method, path |-> path,
             status |-> IF router.routes[method, path] = NoHandler
                        THEN Unrouted(router.routes, path) ELSE 0,
             handler |-> router.routes[method, path]]]
    /\ UNCHANGED <<trVars, mqVars, server, loader, health, applied>>

\* The server before NewServer has been given rules, and LoadRules not
\* called.
NoServer ==
    /\ server = [rules |-> <<>>, reqs |-> [h \in Handlers |-> IdleRequest]]
    /\ loader = IdleLoader
    /\ router = IdleRouter
    /\ health = IdleHealth
    /\ applied = IdleApplied

(***************************************************************************)
(* config.LoadRules, one directory entry at a time.                        *)
(***************************************************************************)
\* return nil, err
LoadFailed(err) ==
    loader' = [loader EXCEPT !.pc = "done", !.ret = [rules |-> <<>>, err |-> err]]

\* os.ReadDir(rulesDir), and the error return if it fails.
LoadRules(dir) ==
    /\ loader.pc \in {"idle", "done"}
    /\ IF dir.listed
       THEN loader' = [IdleLoader EXCEPT !.pc = "loop", !.dir = dir, !.i = 1]
       ELSE loader' = [IdleLoader EXCEPT !.pc = "done", !.dir = dir,
                          !.ret = [rules |-> <<>>,
                                   err |-> Wrap("failed to read rules directory: %w", "",
                                                Err("open: no such file or directory", "dir"))]]
    /\ UNCHANGED <<trVars, mqVars, server, xVars>>

\* One turn of the loop: the entry is passed over, or read, parsed,
\* validated and appended; the first failure returns.
LoadEntry ==
    /\ loader.pc = "loop"
    /\ loader.i <= Len(loader.dir.entries)
    /\ \E entry \in {loader.dir.entries[loader.i]} :
        IF Skipped(entry) THEN loader' = [loader EXCEPT !.i = @ + 1]
        ELSE IF ~entry.readable
             THEN LoadFailed(Wrap("failed to read rule file %s: %w", "file",
                                  Err("open: permission denied", "file")))
        ELSE \E u \in {UnmarshalRule(entry.data)} :
                IF ~u.ok
                THEN LoadFailed(Wrap("failed to parse rule file %s: %w", "file",
                                     Err("json: cannot unmarshal", "")))
                ELSE \E err \in {Validate(u.rule)} :
                        IF err # <<>>
                        THEN LoadFailed(Wrap("invalid rule in file %s: %w", "file", err))
                        ELSE loader' = [loader EXCEPT !.i = @ + 1, !.rules = Append(@, u.rule)]
    /\ UNCHANGED <<trVars, mqVars, server, xVars>>

\* return rules, nil
LoadReturn ==
    /\ loader.pc = "loop"
    /\ loader.i > Len(loader.dir.entries)
    /\ loader' = [loader EXCEPT !.pc = "done", !.ret = [rules |-> loader.rules, err |-> <<>>]]
    /\ UNCHANGED <<trVars, mqVars, server, xVars>>

InitTransformer ==
    /\ transformer = "none"
    /\ templates = [id \in RuleIds |-> 0]
    /\ objects = [a \in Addrs |-> NoTemplate]
    /\ activeRules = 0
    /\ bufs = [b \in BufIds |-> <<>>]
    /\ live = {}
    /\ pool = {}
    /\ calls = [c \in Callers |-> IdleCall]
    /\ admins = [a \in Admins |-> IdleAdmin]

Init == InitTransformer /\ InitMqtt({0}) /\ NoServer

\* The steps of one Transform caller, and of one caller of AddTemplate and
\* RemoveTemplate, on the rule ids ids; the caller of AddTemplate draws the
\* template text from texts.
TransformStep(c, ids) ==
    \/ \E id \in ids, input \in Inputs : TransformBegin(c, id, input)
    \/ TransformGetBuf(c)
    \/ TransformExec(c)
    \/ TransformFinish(c)

AdminStep(a, ids, texts) ==
    \/ \E id \in ids, text \in texts : AddTemplateBegin(a, id, text)
    \/ \E id \in ids : RemoveTemplateBegin(a, id)
    \/ CountTemplates(a)
    \/ SetActiveRules(a)

\* One Transform caller and one caller of AddTemplate and RemoveTemplate, both
\* on rule r1; the templates added are two that compile and one that does not.
Next ==
    \/ New
    \/ TransformStep("c1", {"r1"})
    \/ AdminStep("a1", {"r1"}, {tmplStr, tmplFrom, tmplUnclosed})

vars == <<trVars, mqVars, hVars>>

Spec == Init /\ [][Next]_vars

\* Transform callers only, on the registry New has built.
NextTransforms ==
    \/ New
    \/ \E c \in Callers : TransformStep(c, RuleIds)

SpecTransforms == Init /\ [][NextTransforms]_vars

\* Callers of AddTemplate and RemoveTemplate only.
NextRegistry ==
    \/ New
    \/ \E a \in Admins : AdminStep(a, RuleIds, TemplateTexts)

SpecRegistry == Init /\ [][NextRegistry]_vars

(***************************************************************************)
(* The delivery client: New, then Publish callers, the connection's events *)
(* and Close.                                                              *)
(***************************************************************************)
InitClient == InitTransformer /\ InitMqtt(0..MaxRetriesCfg) /\ NoServer

NextClient ==
    \/ NewConnect
    \/ ConnectAccepted
    \/ ConnectRefused
    \/ NewAcked
    \/ NewTimeout
    \/ NewReturn
    \/ ConnectionLost
    \/ ReconnectFailed
    \/ Reconnected
    \/ RunCallback
    \/ \E p \in Publishers, topic \in Topics : PublishBegin(p, topic)
    \/ \E p \in Publishers : PublishTimeout(p) \/ PublishFailed(p) \/ PublishAcked(p)
    \/ CloseBegin
    \/ CloseDisconnect
    \/ CloseReturn

SpecClient == InitClient /\ [][NextClient]_vars

\* The connection by itself: New, the connection's events and Close.
NextConnection ==
    \/ NewConnect
    \/ ConnectAccepted
    \/ ConnectRefused
    \/ NewAcked
    \/ NewTimeout
    \/ NewReturn
    \/ ConnectionLost
    \/ ReconnectFailed
    \/ Reconnected
    \/ RunCallback
    \/ CloseBegin
    \/ CloseDisconnect
    \/ CloseReturn

\* paho goes on reconnecting, and the broker accepts an attempt in the end.
SpecConnectionFair == InitClient /\ [][NextConnection]_vars /\ WF_vars(Reconnected)

(***************************************************************************)
(* The server at work: main has loaded rules, built the transformer from    *)
(* them and connected the client, and the handlers serve requests.         *)
(***************************************************************************)
\* The registry New builds from each rule list, worked out once.
Built ==
    [rules \in RuleLists |->
        CompileAll(rules, [id \in RuleIds |-> 0], [a \in Addrs |-> NoTemplate],
                   [c \in Callers |-> IdleCall])]

InitServer ==
    \E rules \in RuleLists :
        \E r \in {Built[rules]} :
            /\ r.ok
            /\ transformer = "ready"
            /\ templates = r.templates
            /\ objects = r.objects
            /\ activeRules = Len(rules)
            /\ bufs = [b \in BufIds |-> <<>>]
            /\ live = {}
            /\ pool = {}
            /\ calls = [c \in Callers |-> IdleCall]
            /\ admins = [a \in Admins |-> IdleAdmin]
            /\ cfg = [MaxRetries |-> 0, Initial |-> 0, TLS |-> NoTLS]
            /\ mq = [NoClient EXCEPT !.pc = "done", !.connects = 1, !.client = "ready",
                                     !.allFailed = FALSE]
            /\ conn = "Connected"
            /\ token = "ok"
            /\ callbacks = {}
            /\ gauge = TRUE
            /\ reconnections = 0
            /\ pubs = [p \in Publishers |-> IdlePub]
            /\ pubMetrics = [t \in Topics |-> [attempts |-> 0, failures |-> 0, durations |-> 0]]
            /\ pubReturns = [t \in Topics |-> [calls |-> 0, errors |-> 0]]
            /\ closer = [pc |-> "idle", closes |-> 0, connected |-> FALSE, from |-> ""]
            /\ server = [rules |-> rules, reqs |-> [h \in Handlers |-> IdleRequest]]
            /\ loader = IdleLoader
            /\ router = IdleRouter
            /\ health = IdleHealth
            /\ applied = IdleApplied

NextServer ==
    \/ \E h \in Handlers, body \in Bodies :
            \E i \in 1..Len(server.rules) : HandleRead(h, server.rules[i], body)
    \/ \E h \in Handlers : HandleTransform(h)
    \/ \E h \in Handlers : TransformGetBuf(Worker[h].c)
    \/ \E h \in Handlers : TransformExec(Worker[h].c)
    \/ \E h \in Handlers : TransformFinish(Worker[h].c)
    \/ \E h \in Handlers : HandleTransformed(h)
    \/ \E h \in Handlers : HandlePublish(h)
    \/ \E h \in Handlers : PublishTimeout(Worker[h].p)
    \/ \E h \in Handlers : PublishFailed(Worker[h].p)
    \/ \E h \in Handlers : PublishAcked(Worker[h].p)
    \/ \E h \in Handlers : HandlePublished(h)

SpecServer == InitServer /\ [][NextServer]_vars

(***************************************************************************)
(* LoadRules by itself, on each directory.                                 *)
(***************************************************************************)
NextRules ==
    \/ \E dir \in Dirs : LoadRules(dir)
    \/ LoadEntry
    \/ LoadReturn

SpecRules == Init /\ [][NextRules]_vars

(***************************************************************************)
(* num and bool at work: one caller of Transform on a transformer built    *)
(* from a rule that applies num and a rule that applies bool to the member *)
(* y of the document.                                                      *)
(***************************************************************************)
InitFuncs ==
    \E r \in {CompileAll(FuncRules, [id \in RuleIds |-> 0], [a \in Addrs |-> NoTemplate],
                          [c \in Callers |-> IdleCall])} :
        /\ transformer = "ready"
        /\ templates = r.templates
        /\ objects = r.objects
        /\ activeRules = Len(FuncRules)
        /\ bufs = [b \in BufIds |-> <<>>]
        /\ live = {}
        /\ pool = {}
        /\ calls = [c \in Callers |-> IdleCall]
        /\ admins = [a \in Admins |-> IdleAdmin]
        /\ InitMqtt({0})
        /\ NoServer

NextFuncs ==
    \/ \E id \in RuleIds, input \in ValueDocs : TransformBegin("c1", id, input)
    \/ TransformGetBuf("c1")
    \/ TransformExec("c1")
    \/ TransformFinish("c1")

SpecFuncs == InitFuncs /\ [][NextFuncs]_vars

\* The same transformer on the documents whose member y is given to
\* ParseFloat.
NextNumbers ==
    \/ \E id \in RuleIds, input \in NumberDocs : TransformBegin("c1", id, input)
    \/ TransformGetBuf("c1")
    \/ TransformExec("c1")
    \/ TransformFinish("c1")

SpecNumbers == InitFuncs /\ [][NextNumbers]_vars

(***************************************************************************)
(* The router: NewServer on a rule list, then requests of every method and *)
(* path.                                                                   *)
(***************************************************************************)
ApiRules(id) == {ApiRule(id, m, p) : m \in {"POST", "PUT"}, p \in RulePaths}

\* The rule lists given to NewServer: r1, r2 or both, in either order.
RouteLists ==
    {<<>>} \cup {<<a>> : a \in ApiRules("r1") \cup ApiRules("r2")}
    \cup {<<a, b>> : a \in ApiRules("r1"), b \in ApiRules("r2")}
    \cup {<<b, a>> : a \in ApiRules("r1"), b \in ApiRules("r2")}

NextRouter ==
    \/ \E rules \in RouteLists : NewServer(rules)
    \/ \E method \in Methods, path \in Paths : ServeHTTP(method, path)

SpecRouter == Init /\ [][NextRouter]_vars

(***************************************************************************)
(* The connection and its gauge: New, the events of the connection, Close  *)
(* and the health handler's calls of IsConnected.                          *)
(***************************************************************************)
NextHealth ==
    \/ NewConnect
    \/ ConnectAccepted
    \/ ConnectRefused
    \/ NewAcked
    \/ NewTimeout
    \/ NewReturn
    \/ ConnectionLost
    \/ ReconnectFailed
    \/ Reconnected
    \/ RunCallback
    \/ CloseBegin
    \/ CloseDisconnect
    \/ CloseReturn
    \/ IsConnectedBegin
    \/ IsConnectedReturn

SpecHealth == Init /\ [][NextHealth]_vars

(***************************************************************************)
(* The start-up of the delivery client as main runs it: LoadConfig, then   *)
(* mqtt.New with its TLS set-up and its connection loop, under every       *)
(* configuration of the retries, the delay and the TLS files.              *)
(***************************************************************************)
\* Reconnect.Initial is drawn from 1..MaxInitial.
MaxInitial == 2

TLSConfigs ==
    {TLSConfig(e, ca, c, k) : e \in BOOLEAN, ca \in {"", "ca.pem", "gone.pem", "junk.pem"},
                              c \in {"", "cert.pem", "junk.pem"}, k \in {"", "key.pem"}}

InitStartup ==
    /\ InitTransformer
    /\ InitMqttAt([MaxRetries : 0..MaxRetriesCfg, Initial : 1..MaxInitial, TLS : TLSConfigs], "config")
    /\ NoServer

NextStartup ==
    \/ LoadConfig
    \/ NewConfigure
    \/ NewConnect
    \/ ConnectAccepted
    \/ ConnectRefused
    \/ NewAcked
    \/ NewTimeout
    \/ NewReturn

SpecStartup == InitStartup /\ [][NextStartup]_vars

(***************************************************************************)
(* Members the document does not have: one caller of Transform on a        *)
(* transformer built from the rules for num and bool, or from the rules    *)
(* that print a member and apply toJSON to one.                            *)
(***************************************************************************)
InitMissing ==
    \E rules \in {FuncRules, PrintRules} :
        \E r \in {CompileAll(rules, [id \in RuleIds |-> 0], [a \in Addrs |-> NoTemplate],
                              [c \in Callers |-> IdleCall])} :
            /\ transformer = "ready"
            /\ templates = r.templates
            /\ objects = r.objects
            /\ activeRules = Len(rules)
            /\ bufs = [b \in BufIds |-> <<>>]
            /\ live = {}
            /\ pool = {}
            /\ calls = [c \in Callers |-> IdleCall]
            /\ admins = [a \in Admins |-> IdleAdmin]
            /\ InitMqtt({0})
            /\ NoServer

NextMissing ==
    \/ \E id \in RuleIds, input \in ValueDocs : TransformBegin("c1", id, input)
    \/ TransformGetBuf("c1")
    \/ TransformExec("c1")
    \/ TransformFinish("c1")

SpecMissing == InitMissing /\ [][NextMissing]_vars

(***************************************************************************)
(* toJSON and fromJSON applied by themselves to a decoded value, as the     *)
(* template {{fromJSON (toJSON .x)}} applies them.                         *)
(***************************************************************************)
InitRoundTrip ==
    /\ InitTransformer
    /\ InitMqtt({0})
    /\ server = [rules |-> <<>>, reqs |-> [h \in Handlers |-> IdleRequest]]
    /\ loader = IdleLoader
    /\ router = IdleRouter
    /\ health = IdleHealth
    /\ \E x \in DecodedValues : applied = [IdleApplied EXCEPT !.pc = "arg", !.x = x]

\* toJSON(x), and fromJSON of the text it returned.
RoundTrip ==
    /\ applied.pc = "arg"
    /\ applied' = [applied EXCEPT !.pc = "done", !.text = toJSON(applied.x),
                                  !.out = fromJSON(toJSON(applied.x))]
    /\ UNCHANGED <<trVars, mqVars, server, loader, router, health>>

NextRoundTrip == RoundTrip

SpecRoundTrip == InitRoundTrip /\ [][NextRoundTrip]_vars

(***************************************************************************)
(* Properties of Transform.                                                *)
(***************************************************************************)
\* Transform run by itself on the registry as it stands: the error, or the
\* bytes returned.
TransformAlone(tmpls, objs, id, input, env) ==
    IF tmpls[id] = 0 THEN [err |-> ErrNotFound, out |-> <<>>]
    ELSE IF ~Decoded[input].ok THEN [err |-> ErrParse, out |-> <<>>]
    ELSE LET r == Execute(objs[tmpls[id]].Template, Decoded[input].data, env, <<>>)
         IN  IF ~r.ok THEN [err |-> ErrExecute, out |-> <<>>]
             ELSE IF ~JsonValid(r.out) THEN [err |-> ErrInvalid, out |-> <<>>]
             ELSE [err |-> "", out |-> r.out]

Returned(c) == calls[c].pc = "done"

\* C1: a Transform call that has returned either has no error and bytes that
\* are well-formed JSON, or has an error and nil bytes; never an error with
\* bytes, and never bytes that are not JSON.
C1_ValidJsonOrError ==
    \A c \in Callers :
        Returned(c) =>
            \/ /\ calls[c].err = ""
               /\ calls[c].result.kind # "nil"
               /\ JsonValid(View(calls[c].result))
            \/ /\ calls[c].err # ""
               /\ calls[c].result = NilBytes

\* One call has returned JSON, another has failed the validation of an output
\* it had built and returned nothing.
C1_Witness ==
    \E c, d \in Callers :
        /\ Returned(c) /\ calls[c].err = "" /\ Len(View(calls[c].result)) > 0
        /\ Returned(d) /\ calls[d].err = ErrInvalid /\ calls[d].result = NilBytes

\* C2: under any interleaving of Transform calls, what a call has returned
\* is, and stays, what the same call gives when run alone; and two executions
\* never write into one pooled buffer.
C2_IsolatedCalls ==
    /\ \A c \in Callers :
        Returned(c) =>
            LET alone == TransformAlone(templates, objects, calls[c].ruleID, calls[c].input, calls[c].env)
            IN  /\ calls[c].err = alone.err
                /\ View(calls[c].result) = alone.out
    /\ \A c, d \in Callers :
        (c # d /\ calls[c].pc = "exec" /\ calls[d].pc = "exec") => calls[c].buf # calls[d].buf
    /\ \A c \in Callers : calls[c].pc = "exec" => calls[c].buf \in live \ pool

\* One caller holds the bytes of a finished call while another is writing,
\* for the same rule, into the only buffer the pool has ever made.
C2_Witness ==
    \E c, d \in Callers :
        /\ c # d
        /\ Returned(c) /\ calls[c].err = "" /\ Len(View(calls[c].result)) > 0
        /\ calls[d].pc = "exec" /\ calls[d].idx > 1
        /\ calls[d].ruleID = calls[c].ruleID
        /\ calls[d].input # calls[c].input
        /\ live = {calls[d].buf}

\* C3: a failed Transform call carries one classification, that of the first
\* failing step in the order lookup, decode, execute, validate.
C3_ErrorOrder ==
    \A c \in Callers :
        Returned(c) =>
            LET id == calls[c].ruleID
                input == calls[c].input
                exec == Execute(objects[templates[id]].Template, Decoded[input].data, calls[c].env, <<>>)
            IN  /\ calls[c].err \in {"", ErrNotFound, ErrParse, ErrExecute, ErrInvalid}
                /\ templates[id] = 0 => calls[c].err = ErrNotFound
                /\ (templates[id] # 0 /\ ~Decoded[input].ok) => calls[c].err = ErrParse
                /\ (templates[id] # 0 /\ Decoded[input].ok /\ ~exec.ok) => calls[c].err = ErrExecute
                /\ (templates[id] # 0 /\ Decoded[input].ok /\ exec.ok /\ ~JsonValid(exec.out))
                        => calls[c].err = ErrInvalid
                /\ (templates[id] # 0 /\ Decoded[input].ok /\ exec.ok /\ JsonValid(exec.out))
                        => calls[c].err = ""
                /\ calls[c].err # "" =>
                        Cardinality({i \in 1..Len(calls[c].events) :
                                        calls[c].events[i] \in {"transform_error", "template_error"}}) = 1

\* A call for an unregistered id with an input that cannot be decoded has
\* returned "template not found", and a call with the same input for a
\* registered id the input-parse error.
C3_Witness ==
    \E c, d \in Callers :
        /\ Returned(c) /\ templates[calls[c].ruleID] = 0 /\ ~Decoded[calls[c].input].ok
        /\ calls[c].err = ErrNotFound
        /\ Returned(d) /\ calls[d].input = calls[c].input /\ calls[d].err = ErrParse

\* C11: a buffer is held by a call from its Get to its return and by nobody
\* else, every return gives it back, so with no call running every buffer is in
\* the pool; and the buffer of a running execution holds exactly what that
\* execution has written so far, nothing of an earlier one.
C11_PooledBuffers ==
    /\ \A c \in Callers :
        IF calls[c].pc = "exec"
        THEN /\ calls[c].buf \in live \ pool
             /\ bufs[calls[c].buf] =
                    Execute(SubSeq(calls[c].loaded.Template, 1, calls[c].idx - 1),
                            Decoded[calls[c].input].data, calls[c].env, <<>>).out
        ELSE calls[c].buf = 0
    /\ live \ pool = {calls[c].buf : c \in {d \in Callers : calls[d].pc = "exec"}}
    /\ (\A c \in Callers : calls[c].pc # "exec") => pool = live

\* A call is about to write into the only buffer the pool has made, which an
\* execution that failed half-way has used and given back; the other caller
\* has that failure in hand.
C11_Witness ==
    \E c, d \in Callers :
        /\ Returned(c) /\ calls[c].err = ErrExecute
        /\ calls[d].pc = "exec" /\ calls[d].idx = 1
        /\ live = {calls[d].buf}
        /\ bufs[calls[d].buf] = <<>>

\* How many of the events a call has emitted are of the given kinds.
Emitted(c, kinds) ==
    Cardinality({i \in 1..Len(calls[c].events) : calls[c].events[i] \in kinds})

\* C12: every Transform call that has returned, whatever its outcome, has
\* emitted one outcome event (an error count, or the observation of the
\* output), the size of the attempt and its duration.
C12_OutcomeSizeDuration ==
    \A c \in Callers :
        Returned(c) =>
            /\ Emitted(c, {"transform_error", "template_error", "output_size"}) = 1
            /\ Emitted(c, {"input_size"}) = 1
            /\ Emitted(c, {"duration"}) = 1

(***************************************************************************)
(* Properties of the delivery client.                                      *)
(***************************************************************************)
\* C4: per topic, one attempt is counted for every Publish call, one failure
\* for every call that returned an error and none for a call that returned
\* nil; so failures never exceed attempts.
C4_PublishCounters ==
    \A t \in Topics :
        /\ pubMetrics[t].attempts = pubReturns[t].calls
        /\ pubMetrics[t].failures = pubReturns[t].errors
        /\ pubMetrics[t].failures <= pubMetrics[t].attempts
        /\ pubMetrics[t].failures + pubMetrics[t].durations
                + Cardinality({p \in Publishers : pubs[p].pc = "wait" /\ pubs[p].topic = t})
             = pubMetrics[t].attempts

\* One Publish has timed out and another, on the same topic, has returned nil.
C4_Witness ==
    \E p, q \in Publishers :
        /\ pubs[p].pc = "done" /\ pubs[p].ret = "publish timeout"
        /\ pubs[q].pc = "done" /\ pubs[q].ret = "nil"
        /\ pubs[p].topic = pubs[q].topic
        /\ pubMetrics[pubs[p].topic].failures = 1

\* C5: when every start-up attempt is acknowledged with a failure, New makes
\* MaxRetries retries and no more, and returns no client and an error that
\* names MaxRetries; New never returns both a client and an error.
C5_StartupGivesUp ==
    /\ mq.retries <= cfg.MaxRetries
    /\ mq.connects <= cfg.MaxRetries + 1
    /\ (mq.pc = "done" /\ mq.allFailed) =>
            /\ mq.client = "nil"
            /\ mq.err = "failed to connect after retries"
            /\ mq.errRetries = cfg.MaxRetries
            /\ mq.connects = cfg.MaxRetries + 1
    /\ mq.client = "nil" => mq.err # ""
    /\ mq.client = "ready" => mq.err = ""

\* New has given up after the largest number of retries, all refused.
C5_Witness ==
    /\ mq.pc = "done"
    /\ mq.allFailed
    /\ cfg.MaxRetries = MaxRetriesCfg
    /\ mq.errRetries = MaxRetriesCfg
    /\ mq.client = "nil"

\* C6: a Close that has returned leaves the connection Closed, whatever state
\* it found; Closed is never left and no reconnection is attempted in it; a
\* Close of a closed client changes nothing.
C6_CloseIsTerminal ==
    /\ [](closer.pc = "done" => conn = "Closed")
    /\ [][conn = "Closed" => (conn' = "Closed" /\ reconnections' = reconnections /\ token' = token)]_vars
    /\ [][(conn = "Closed" /\ closer.pc \in {"idle", "done"} /\ closer' # closer)
            => (closer'.pc = "done" /\ conn' = conn /\ gauge' = gauge /\ callbacks' = callbacks)]_vars

\* A second Close has returned, having found the client closed by the first.
C6_Witness ==
    /\ closer.pc = "done"
    /\ closer.closes >= 2
    /\ closer.from = "Closed"
    /\ conn = "Closed"

Quiescent == transformer = "ready" /\ \A a \in Admins : admins[a].pc \in {"idle", "done"}

\* C8: whenever no New, AddTemplate or RemoveTemplate is in progress, the
\* active-rules value last reported equals the number of templates stored.
C8_ActiveRulesMatchRegistry == Quiescent => activeRules = Count(templates)

\* The compiled template stored under an id.
Stored(id) == IF templates[id] = 0 THEN NoTemplate ELSE objects[templates[id]]

\* C9: a Transform call executes, from its lookup to its return, the one
\* compiled template it loaded, whatever is added or removed meanwhile, and
\* returns what that template gives; a step of Transform leaves every stored
\* template as it was; RemoveTemplate leaves the id without a template, only
\* an AddTemplate gives it one again, and a Transform that starts on an id
\* without a template fails with "template not found".
C9_OneTemplatePerCall ==
    /\ [](\A c \in Callers :
            /\ calls[c].pc \in {"getbuf", "exec"} => objects[calls[c].tmpl] = calls[c].loaded
            /\ (Returned(c) /\ calls[c].err = "") =>
                    View(calls[c].result)
                        = Execute(calls[c].loaded.Template, Decoded[calls[c].input].data, calls[c].env, <<>>).out)
    /\ [][(transformer = "ready" /\ admins' = admins) => \A id \in RuleIds : Stored(id)' = Stored(id)]_vars
    /\ [][\A a \in Admins :
            (admins[a].pc \in {"idle", "done"} /\ admins'[a].pc = "count" /\ admins'[a].op = "remove")
                => templates'[admins'[a].id] = 0]_vars
    /\ [][\A id \in RuleIds :
            (transformer = "ready" /\ Stored(id) = NoTemplate /\ Stored(id)' # NoTemplate)
                => \E a \in Admins : /\ admins[a].pc \in {"idle", "done"}
                                     /\ admins'[a].pc = "count"
                                     /\ admins'[a].op = "add"
                                     /\ admins'[a].id = id]_vars
    /\ [][\A c \in Callers :
            (calls[c].pc \in {"idle", "done"} /\ calls'[c].pc # calls[c].pc
                /\ Stored(calls'[c].ruleID) = NoTemplate)
                => (calls'[c].pc = "done" /\ calls'[c].err = ErrNotFound)]_vars

\* A call is in the middle of executing a template that has meanwhile been
\* replaced in the registry by another.
C9_Witness ==
    \E c \in Callers :
        /\ calls[c].pc = "exec"
        /\ calls[c].idx > 1
        /\ Stored(calls[c].ruleID) # NoTemplate
        /\ Stored(calls[c].ruleID) # calls[c].loaded

\* C10: an AddTemplate whose text does not compile returns its error and
\* leaves the registry, the compiled templates and the active-rules value
\* exactly as they were.
C10_FailedAddChangesNothing ==
    [][\A a \in Admins :
        (admins[a].pc \in {"idle", "done"} /\ admins'[a] # admins[a] /\ admins'[a].err = "compile")
            => /\ admins'[a].pc = "done"
               /\ templates' = templates
               /\ objects' = objects
               /\ activeRules' = activeRules]_vars

\* An AddTemplate has failed to compile a text for an id that had, and has, a
\* template.
C10_Witness ==
    \E a \in Admins :
        /\ admins[a].pc = "done"
        /\ admins[a].err = "compile"
        /\ Stored(admins[a].id) # NoTemplate

(***************************************************************************)
(* Properties of the transform request handler.                            *)
(***************************************************************************)
\* The handler has answered the request.
Answered(h) == server.reqs[h].pc = "done"

\* The body of the request could not be read or is not valid JSON.
BadBody(h) == server.reqs[h].body = ReadError \/ ~JsonValid(server.reqs[h].body)

\* What Transform gives for the rule and the body of the request, worked out
\* apart from the handler.
Expected(h) ==
    TransformAlone(templates, objects, server.reqs[h].rule.ID, server.reqs[h].body,
                   CHOOSE env \in Envs : TRUE)

C14_PublishAfterTransform ==
    \A h \in Handlers :
        /\ Len(server.reqs[h].publishes) <= 1
        /\ server.reqs[h].publishes # <<>> =>
              /\ ~BadBody(h)
              /\ Returned(Worker[h].c)
              /\ calls[Worker[h].c].ruleID = server.reqs[h].rule.ID
              /\ calls[Worker[h].c].input = server.reqs[h].body
              /\ calls[Worker[h].c].err = ""
              /\ server.reqs[h].publishes[1] =
                    [topic |-> server.reqs[h].rule.Target.Topic,
                     qos |-> server.reqs[h].rule.Target.QoS,
                     retain |-> server.reqs[h].rule.Target.Retain,
                     payload |-> View(calls[Worker[h].c].result)]
              /\ server.reqs[h].publishes[1].payload = Expected(h).out
              /\ pubs[Worker[h].p].topic = server.reqs[h].publishes[1].topic
              /\ server.reqs[h].rule \in {server.rules[i] : i \in 1..Len(server.rules)}
        /\ (Answered(h) /\ server.reqs[h].responses[1].status \in {400, 422}) =>
              server.reqs[h].publishes = <<>>

\* A request for a rule published at QoS 1 has been transformed, published
\* and answered 200.
C14_Witness ==
    \E h \in Handlers :
        /\ Answered(h)
        /\ server.reqs[h].responses[1].status = 200
        /\ Len(server.reqs[h].publishes) = 1
        /\ server.reqs[h].publishes[1].qos = 1

(***************************************************************************)
(* Properties of LoadRules and Rule.Validate.                              *)
(***************************************************************************)
\* LoadRules has returned for a directory it could list.
Loaded == loader.pc = "done" /\ loader.dir.listed

\* A file directly in the directory whose name ends in .json.
IsJsonFile(entry) ==
    /\ ~entry.isDir
    /\ Len(entry.name) >= 5
    /\ SubSeq(entry.name, Len(entry.name) - 4, Len(entry.name)) = <<".", "j", "s", "o", "n">>

\* The file can be read, parses into a rule, and the rule passes validation.
FileOk(entry) ==
    /\ entry.readable
    /\ UnmarshalRule(entry.data).ok
    /\ Validate(UnmarshalRule(entry.data).rule) = <<>>

\* The rules of the .json files among the entries, in their order.
RECURSIVE RulesOf(_)
RulesOf(entries) ==
    IF Len(entries) = 0 THEN <<>>
    ELSE (IF IsJsonFile(entries[1]) THEN <<UnmarshalRule(entries[1].data).rule>> ELSE <<>>)
         \o RulesOf(Tail(entries))

\* C15: LoadRules returns the rules, without error, if and only if every
\* .json file directly in the directory parses and passes validation; if one
\* does not, it returns an error and no list, not even the rules read before
\* it; sub-directories and files of another extension are passed over
\* whatever they hold.
C15_AllOrNothing ==
    Loaded =>
        LET entries == loader.dir.entries
            good == \A k \in 1..Len(entries) : IsJsonFile(entries[k]) => FileOk(entries[k])
        IN  /\ (loader.ret.err = <<>>) <=> good
            /\ good => loader.ret.rules = RulesOf(entries)
            /\ ~good => loader.ret.rules = <<>>

\* A load has failed at a file after it had taken a rule and passed over a
\* sub-directory and a file of another extension; it returned no rule.
C15_Witness ==
    /\ Loaded
    /\ loader.ret.err # <<>>
    /\ loader.ret.rules = <<>>
    /\ Len(loader.rules) >= 1
    /\ \E k \in 1..(loader.i - 1) : loader.dir.entries[k].isDir
    /\ \E k \in 1..(loader.i - 1) :
            ~loader.dir.entries[k].isDir /\ ~IsJsonFile(loader.dir.entries[k])

\* The rule of the file at which a load failed validation, and the error
\* Rule.Validate gave for it.
FailedRule == UnmarshalRule(loader.dir.entries[loader.i].data).rule

FailedValidation ==
    /\ Loaded
    /\ Len(loader.ret.err) > 1
    /\ loader.ret.err[1].msg = "invalid rule in file %s: %w"

\* The checks in the order the specification lists them: TRUE where the rule
\* fails the check.
Failing(r) ==
    << r.ID = <<>>,
       r.API.Method \notin {<<"G", "E", "T">>, <<"P", "O", "S", "T">>, <<"P", "U", "T">>,
                            <<"P", "A", "T", "C", "H">>, <<"D", "E", "L", "E", "T", "E">>},
       r.API.Path = <<>> \/ r.API.Path[1] # "/",
       r.Template = <<>> \/ ~ParseTemplate(r.Template, 1, templateFuncs, <<>>).ok,
       r.Target.Topic = <<>> \/ \E k \in 1..Len(r.Target.Topic) : r.Target.Topic[k] \in {"#", "+"},
       r.Target.QoS \notin {0, 1, 2} >>

\* The check an error message speaks of, as a position in that order.
CheckOf(msg) ==
    CASE msg = "rule ID is required" -> 1
      [] msg = "invalid HTTP method: %s" -> 2
      [] msg = "API path must start with /" -> 3
      [] msg \in {"transformation template is required", "template: validation: parse error"} -> 4
      [] msg \in {"topic cannot be empty", "invalid topic format: %s"} -> 5
      [] msg = "invalid QoS level: %d, must be between %d and %d" -> 6
      [] OTHER -> 0

\* C16: the error of a rule that fails validation is that of the first check
\* it fails in the order id, method, path, template, topic, QoS, and the
\* error names the id of the rule and the field that failed.
C16_FirstFailingCheckNamed ==
    FailedValidation =>
        LET err == loader.ret.err
            check == CheckOf(err[Len(err)].msg)
        IN  /\ check \in 1..6
            /\ Failing(FailedRule)[check]
            /\ \A k \in 1..(check - 1) : ~Failing(FailedRule)[k]
            /\ FailedRule.ID # <<>> => \E k \in 1..Len(err) : err[k].arg = "id"

\* C17: validation accepts the template of an otherwise valid rule exactly
\* when the transformer compiles it, and both do for a template calling now,
\* num, bool, toJSON, fromJSON or uuid7 and for no other function name.
C17_SameFunctionNames ==
    (/\ Loaded
     /\ Len(loader.dir.entries) = 1
     /\ loader.dir.entries[1].data \in CallFiles) =>
        LET text == UnmarshalRule(loader.dir.entries[1].data).rule.Template
            compiles == ParseTemplate(text, 1, templateFuncs, <<>>).ok
            named == \E fn \in {<<"n", "o", "w">>, <<"n", "u", "m">>, <<"b", "o", "o", "l">>,
                                <<"t", "o", "J", "S", "O", "N">>,
                                <<"f", "r", "o", "m", "J", "S", "O", "N">>,
                                <<"u", "u", "i", "d", "7">>} : text = CallText(fn)
        IN  /\ (loader.ret.err = <<>>) <=> compiles
            /\ (loader.ret.err = <<>>) <=> named

\* C18: the rules of a load that succeeded have different ids.
C18_UniqueIds ==
    (Loaded /\ loader.ret.err = <<>>) =>
        \A j, k \in 1..Len(loader.ret.rules) :
            loader.ret.rules[j].ID = loader.ret.rules[k].ID => j = k

(***************************************************************************)
(* Properties of num and bool as Transform applies them.                   *)
(***************************************************************************)
\* The call of caller c executes the template of text on the document doc.
Applies(c, text, doc) ==
    /\ calls[c].pc \in {"exec", "done"}
    /\ calls[c].loaded.Template = Parsed[text].nodes
    /\ calls[c].input = doc

\* The value action of {"v":{{f .y}}} has run in the call of caller c: what it
\* wrote follows {"v": in the buffer.
Wrote(c, text) ==
    /\ calls[c].pc = "exec"
    /\ calls[c].idx = 3
    /\ bufs[calls[c].buf] = <<"{", "\"", "v", "\"", ":">> \o text

\* The call of caller c has returned {"v":text} without error.
Gave(c, text) ==
    /\ calls[c].err = ""
    /\ View(calls[c].result) = <<"{", "\"", "v", "\"", ":">> \o text \o <<"}">>

\* What num is to emit for each document: the literal of a number as it is
\* written, the content of a string that reads as a number, 0 for any other
\* string, for a boolean, null, an object, an array and a missing member.
NumCases ==
    { [doc |-> DocOf(<<"1", "2", "3", "4", "5", "6", "7", "8", "9", "0", "1", "2", "3", "4", "5">>), emits |-> <<"1", "2", "3", "4", "5", "6", "7", "8", "9", "0", "1", "2", "3", "4", "5">>],
      [doc |-> DocOf(<<"0">>), emits |-> <<"0">>],
      [doc |-> DocOf(<<"0", ".", "0">>), emits |-> <<"0", ".", "0">>],
      [doc |-> DocOf(<<"0", ".", "5", "0">>), emits |-> <<"0", ".", "5", "0">>],
      [doc |-> DocOf(<<"-", "0">>), emits |-> <<"-", "0">>],
      [doc |-> DocOf(<<"1", "e", "3">>), emits |-> <<"1", "e", "3">>],
      [doc |-> DocOf(<<"4", "2">>), emits |-> <<"4", "2">>],
      [doc |-> DocOf(<<"\"", "7", "\"">>), emits |-> <<"7">>],
      [doc |-> DocOf(<<"\"", "1", ".", "5", "\"">>), emits |-> <<"1", ".", "5">>],
      [doc |-> DocOf(<<"\"", "-", "3", "\"">>), emits |-> <<"-", "3">>],
      [doc |-> DocOf(<<"\"", "o", "o", "p", "s", "\"">>), emits |-> <<"0">>],
      [doc |-> DocOf(<<"\"", "\"">>), emits |-> <<"0">>],
      [doc |-> DocOf(<<"\"", "1", "2", "a", "b", "c", "\"">>), emits |-> <<"0">>],
      [doc |-> DocOf(<<"\"", "t", "r", "u", "e", "\"">>), emits |-> <<"0">>],
      [doc |-> DocOf(<<"\"", "f", "a", "l", "s", "e", "\"">>), emits |-> <<"0">>],
      [doc |-> DocOf(<<"\"", "T", "R", "U", "E", "\"">>), emits |-> <<"0">>],
      [doc |-> DocOf(<<"t", "r", "u", "e">>), emits |-> <<"0">>],
      [doc |-> DocOf(<<"f", "a", "l", "s", "e">>), emits |-> <<"0">>],
      [doc |-> DocOf(<<"n", "u", "l", "l">>), emits |-> <<"0">>],
      [doc |-> DocOf(<<"{", "}">>), emits |-> <<"0">>],
      [doc |-> DocOf(<<"{", "\"", "a", "\"", ":", "1", "}">>), emits |-> <<"0">>],
      [doc |-> DocOf(<<"[", "1", "]">>), emits |-> <<"0">>],
      [doc |-> DocOf(<<"[", "]">>), emits |-> <<"0">>],
      [doc |-> docAbsent, emits |-> <<"0">>] }

BoolCases ==
    { [doc |-> DocOf(<<"1", "2", "3", "4", "5", "6", "7", "8", "9", "0", "1", "2", "3", "4", "5">>), emits |-> <<"t", "r", "u", "e">>],
      [doc |-> DocOf(<<"0">>), emits |-> <<"t", "r", "u", "e">>],
      [doc |-> DocOf(<<"0", ".", "0">>), emits |-> <<"t", "r", "u", "e">>],
      [doc |-> DocOf(<<"0", ".", "5", "0">>), emits |-> <<"t", "r", "u", "e">>],
      [doc |-> DocOf(<<"-", "0">>), emits |-> <<"t", "r", "u", "e">>],
      [doc |-> DocOf(<<"1", "e", "3">>), emits |-> <<"t", "r", "u", "e">>],
      [doc |-> DocOf(<<"4", "2">>), emits |-> <<"t", "r", "u", "e">>],
      [doc |-> DocOf(<<"t", "r", "u", "e">>), emits |-> <<"t", "r", "u", "e">>],
      [doc |-> DocOf(<<"f", "a", "l", "s", "e">>), emits |-> <<"f", "a", "l", "s", "e">>],
      [doc |-> DocOf(<<"\"", "t", "r", "u", "e", "\"">>), emits |-> <<"t", "r", "u", "e">>],
      [doc |-> DocOf(<<"\"", "f", "a", "l", "s", "e", "\"">>), emits |-> <<"f", "a", "l", "s", "e">>],
      [doc |-> DocOf(<<"\"", "7", "\"">>), emits |-> <<"f", "a", "l", "s", "e">>],
      [doc |-> DocOf(<<"\"", "1", ".", "5", "\"">>), emits |-> <<"f", "a", "l", "s", "e">>],
      [doc |-> DocOf(<<"\"", "-", "3", "\"">>), emits |-> <<"f", "a", "l", "s", "e">>],
      [doc |-> DocOf(<<"\"", "o", "o", "p", "s", "\"">>), emits |-> <<"f", "a", "l", "s", "e">>],
      [doc |-> DocOf(<<"\"", "\"">>), emits |-> <<"f", "a", "l", "s", "e">>],
      [doc |-> DocOf(<<"\"", "1", "2", "a", "b", "c", "\"">>), emits |-> <<"f", "a", "l", "s", "e">>],
      [doc |-> DocOf(<<"\"", "T", "R", "U", "E", "\"">>), emits |-> <<"f", "a", "l", "s", "e">>],
      [doc |-> DocOf(<<"\"", "+", "5", "\"">>), emits |-> <<"f", "a", "l", "s", "e">>],
      [doc |-> DocOf(<<"\"", "N", "a", "N", "\"">>), emits |-> <<"f", "a", "l", "s", "e">>],
      [doc |-> DocOf(<<"\"", "1", "e", "9", "9", "9", "\"">>), emits |-> <<"f", "a", "l", "s", "e">>],
      [doc |-> DocOf(<<"\"", " ", "7", "\"">>), emits |-> <<"f", "a", "l", "s", "e">>],
      [doc |-> DocOf(<<"n", "u", "l", "l">>), emits |-> <<"f", "a", "l", "s", "e">>],
      [doc |-> DocOf(<<"{", "}">>), emits |-> <<"f", "a", "l", "s", "e">>],
      [doc |-> DocOf(<<"{", "\"", "a", "\"", ":", "1", "}">>), emits |-> <<"f", "a", "l", "s", "e">>],
      [doc |-> DocOf(<<"[", "1", "]">>), emits |-> <<"f", "a", "l", "s", "e">>],
      [doc |-> DocOf(<<"[", "]">>), emits |-> <<"f", "a", "l", "s", "e">>],
      [doc |-> docAbsent, emits |-> <<"f", "a", "l", "s", "e">>] }

\* C20: bool applied to a member of the input as Transform decodes it gives
\* true for every number, 0 and 0.0 included, the value of a boolean, the
\* strings "true" and "false" themselves, and false for null, a missing
\* member and anything else.
C20_BoolOfDecodedValue ==
    \A c \in Callers, k \in BoolCases :
        Applies(c, tmplBool, k.doc) =>
            /\ (calls[c].pc = "exec" /\ calls[c].idx = 3) => Wrote(c, k.emits)
            /\ Returned(c) => Gave(c, k.emits)

(***************************************************************************)
(* Properties of toJSON and fromJSON.                                      *)
(***************************************************************************)
\* The error a TransformError wraps under its message, in the call c: the
\* errors Transform makes name the rule, the error of Execute names the
\* template (compileTemplate names it after the rule), and the error of the
\* decoder knows the input only.
WrappedError(c) ==
    CASE calls[c].err = ErrNotFound -> Err("no template for rule %s", calls[c].ruleID)
      [] calls[c].err = ErrParse -> Err("json: %s", "input")
      [] calls[c].err = ErrExecute -> Err("template: %s: executing", calls[c].loaded.ID)
      [] calls[c].err = ErrInvalid -> Err("invalid JSON output for rule %s", calls[c].ruleID)
      [] OTHER -> <<>>

\* The error Transform returned to caller c: the message of the
\* TransformError, then the error it wraps.
TransformError(c) ==
    IF calls[c].err = "" THEN <<>> ELSE Err(calls[c].err, "") \o WrappedError(c)

\* The error Publish returned to publisher p: fmt.Errorf("publish timeout"),
\* or the error of the token as it is.
PublishError(p) ==
    IF pubs[p].ret = "nil" THEN <<>> ELSE Err(pubs[p].ret, "")

\* The error names the rule id.
CarriesRule(err, id) == \E i \in 1..Len(err) : err[i].arg = id

\* C23: every error Transform or Publish returns to its caller carries the
\* rule id together with an error-specific message: template not found,
\* input parse error, template execution error, invalid output, publish
\* timeout and broker-reported error.
C23_ErrorsCarryRuleId ==
    \A h \in Handlers :
        /\ (server.reqs[h].pc = "transforming" /\ Returned(Worker[h].c)
                /\ calls[Worker[h].c].err # "") =>
               /\ CarriesRule(TransformError(Worker[h].c), server.reqs[h].rule.ID)
               /\ TransformError(Worker[h].c)[1].msg
                     \in {ErrNotFound, ErrParse, ErrExecute, ErrInvalid}
        /\ (server.reqs[h].pc = "publishing" /\ pubs[Worker[h].p].pc = "done"
                /\ pubs[Worker[h].p].ret # "nil") =>
               /\ CarriesRule(PublishError(Worker[h].p), server.reqs[h].rule.ID)
               /\ PublishError(Worker[h].p)[1].msg \in {"publish timeout", "broker error"}

\* C24 as stated: New blocks at most Reconnect.Initial x Reconnect.MaxRetries
\* seconds in total, counting the waits for an acknowledgment and the delays
\* between retries.
C24_BlocksAtMostDelayTimesRetries ==
    mq.elapsed <= cfg.Initial * cfg.MaxRetries

\* C24, amended: New blocks at most Initial x (2 x MaxRetries + 1) seconds in
\* total: MaxRetries + 1 waits of at most Initial seconds each and MaxRetries
\* delays of Initial seconds each.
C24_BlocksAtMostWaitsAndDelays ==
    mq.elapsed <= cfg.Initial * (2 * cfg.MaxRetries + 1)

\* New has given up after MaxRetries retries, and every wait ran to the end
\* of its window: the bound is met.
C24_Witness ==
    /\ mq.pc = "done"
    /\ mq.err = "failed to connect after retries"
    /\ cfg.MaxRetries = MaxRetriesCfg
    /\ mq.connects = cfg.MaxRetries + 1
    /\ mq.elapsed = cfg.Initial * (2 * cfg.MaxRetries + 1)

\* TLS is enabled and the set-up cannot be made: no CA certificate is named,
\* or the CA certificate or the client key pair cannot be read or parsed.
BadTLS(tls) ==
    /\ tls.Enabled
    /\ \/ tls.CACert = ""
       \/ tls.CACert # "" /\ Files[tls.CACert] # "ok"
       \/ tls.Cert # "" /\ tls.Key # "" /\ (Files[tls.Cert] # "ok" \/ Files[tls.Key] # "ok")

\* C26: with TLS enabled and no CA certificate configured, or with a CA
\* certificate or a client key pair that cannot be read or parsed, the
\* set-up of the connection fails before any connection attempt is made.
C26_TLSFailsBeforeConnecting ==
    BadTLS(cfg.TLS) =>
        /\ mq.connects = 0
        /\ conn = "Disconnected"
        /\ token = "none"
        /\ mq.pc \in {"config", "new", "done"}
        /\ mq.pc = "done" =>
               /\ mq.client = "nil"
               /\ mq.err \in {"invalid configuration", "failed to create TLS config"}

\* New has failed on a CA certificate that holds no PEM block.
C26_Witness ==
    /\ cfg.TLS.Enabled
    /\ cfg.TLS.CACert = "junk.pem"
    /\ mq.pc = "done"
    /\ mq.err = "failed to create TLS config"
    /\ mq.connects = 0

\* C28: a start-up attempt that is not acknowledged within Reconnect.Initial
\* seconds makes New fail at once with "connection timeout": no client is
\* returned and no further attempt is made, even when retries remain; only
\* an attempt acknowledged with a failure is retried.
C28_TimeoutFailsAtOnce ==
    [][/\ (mq.pc = "wait" /\ token = "pending" /\ mq' # mq) =>
            /\ mq'.pc = "done"
            /\ mq'.client = "nil"
            /\ mq'.err = "connection timeout"
            /\ mq'.connects = mq.connects
            /\ mq'.elapsed = mq.elapsed + cfg.Initial
       /\ mq.pc = "done" => mq' = mq
       /\ (mq'.pc = "retry" /\ mq.pc # "retry") => (mq.pc = "wait" /\ token = "err")]_vars

\* New has failed with "connection timeout" on its second attempt, with a
\* retry left.
C28_Witness ==
    /\ mq.pc = "done"
    /\ mq.err = "connection timeout"
    /\ mq.client = "nil"
    /\ mq.retries = 1
    /\ mq.connects = 2
    /\ cfg.MaxRetries = 2

\* C25: IsConnected returns without waiting on the broker, returns true only
\* when the client is connected, does not change the connection state, and
\* sets the connection-status gauge to exactly the value it returns.
C25_IsConnectedProbe ==
    [][/\ (health.pc # "set" /\ health'.pc = "set") =>
            /\ health'.connected => conn = "Connected"
            /\ conn' = conn
       /\ (health.pc = "set" /\ health'.pc = "done") =>
            /\ health'.ret => conn = "Connected"
            /\ gauge' = health'.ret
            /\ conn' = conn]_vars

\* C27: after New has returned a client, whenever no connection callback
\* and no IsConnected or Close call is running, the connection-status gauge
\* reads connected exactly when the client is connected; a connection lost
\* between the acknowledgment and New's last gauge update does not leave the
\* gauge reading connected.
C27_GaugeFollowsConnection ==
    (/\ mq.client = "ready"
     /\ callbacks = {}
     /\ health.pc # "set"
     /\ closer.pc \in {"idle", "done"}) =>
        (gauge <=> conn = "Connected")

\* No two rules of the list have both the method and the path in common.
DistinctEndpoints(rules) ==
    \A i, j \in 1..Len(rules) : rules[i].API = rules[j].API => i = j

\* C29: every loaded rule is served: for every rule of the list given to
\* NewServer, a request with the rule's method and path is dispatched to a
\* handler bound to that same rule, also when two rules share a path and
\* differ in method.
C29_EveryRuleServed ==
    (router.req.pc = "done" /\ DistinctEndpoints(router.rules)) =>
        \A i \in 1..Len(router.rules) :
            (/\ router.rules[i].API.Method = router.req.method
             /\ router.rules[i].API.Path = router.req.path) =>
                /\ router.req.status = 0
                /\ router.req.handler = TransformHandler(router.rules[i])

\* The text is the literal of a JSON number and nothing else.
IsNumberLiteral(text) ==
    \E r \in {ParseNumber(text, 1)} : r.ok /\ r.next > Len(text)

\* C30: for every decoded value v, num(v) is a valid JSON number literal, so
\* {{num .field}} never by itself makes Transform fail with the
\* invalid-output error; this includes the strings ParseFloat accepts, such
\* as "NaN", "Inf", "+5", ".5" and hexadecimal floats.
C30_NumGivesNumberLiteral ==
    \A c \in Callers :
        calls[c].loaded.Template = Parsed[tmplNum].nodes =>
            /\ (calls[c].pc = "exec" /\ calls[c].idx = 3) =>
                   IsNumberLiteral(SubSeq(bufs[calls[c].buf], 6, Len(bufs[calls[c].buf])))
            /\ Returned(c) => calls[c].err # ErrInvalid

\* The documents that have no member x.
WithoutX == ValueDocs \ {docAbsent}

\* What Transform is to return when the member the template refers to is
\* missing from the document: the empty string where it is printed, 0 for
\* num, false for bool, null for toJSON.
MissingCases ==
    {[text |-> tmplStr, doc |-> d, gives |-> <<"{", "\"", "i", "d", "\"", ":", "\"", "\"", "}">>] : d \in WithoutX}
    \cup { [text |-> tmplNum, doc |-> docAbsent, gives |-> <<"{", "\"", "v", "\"", ":", "0", "}">>],
           [text |-> tmplBool, doc |-> docAbsent, gives |-> <<"{", "\"", "v", "\"", ":", "f", "a", "l", "s", "e", "}">>],
           [text |-> tmplToJSON, doc |-> docAbsent, gives |-> <<"{", "\"", "v", "\"", ":", "n", "u", "l", "l", "}">>] }

\* C22: a template that refers to a member the document does not have does
\* not make Transform fail; the member degrades to the empty string where
\* {{.field}} prints it, to 0 under num, to false under bool and to null
\* under toJSON.
C22_MissingFieldDegrades ==
    \A c \in Callers, k \in MissingCases :
        (Applies(c, k.text, k.doc) /\ Returned(c)) =>
            /\ calls[c].err = ""
            /\ View(calls[c].result) = k.gives

\* C21: for every value x the decoder of Transform can produce,
\* fromJSON(toJSON(x)) equals x.
C21_RoundTrip ==
    applied.pc = "done" => applied.out = applied.x

====
